---------------------------- MODULE Spec2Model ----------------------------
(***************************************************************************)
(* A model of the sto string interner: the bump arena (src/src/arena.rs),  *)
(* the open-addressing index (src/src/entry.rs) and the sharded, locked    *)
(* repository (src/src/repository.rs), for a 64-bit target.                *)
(*                                                                         *)
(* Memory is byte addressed.  A record is written into a chunk exactly as  *)
(* Chunk::try_alloc_str writes it (hash, length, characters) and read back *)
(* exactly as Entry::hash and Entry::as_str read it.                       *)
(*                                                                         *)
(* Sizes of machine types are the real ones (usize and u64 of 8 bytes, a   *)
(* Chunk of four words).  The tuning constants of src/src/constants.rs are *)
(* scaled down so that the cases they separate are reached with a handful  *)
(* of strings; each such definition says what it is scaled from.           *)
(***************************************************************************)
EXTENDS Integers, Sequences, FiniteSets, TLC

(***************************************************************************)
(* Bounds of the model.                                                    *)
(***************************************************************************)
\* The strings callers intern are StringOf(1) .. StringOf(PoolSize).
PoolSize == 5
\* The strings the threads of SpecConc intern (a shared, overlapping pool).
ConcPoolSize == 2
\* The number of threads of SpecConc.
NumThreads == 2
\* The strings interned into each of the two repositories of SpecCross.
CrossPoolSize == 2
\* The strings interned in SpecIndex: StringOf(1) .. StringOf(IndexPoolSize).
IndexPoolSize == 4
\* The number of threads of SpecSnap that intern, beside the one that calls
\* allocated_memory.
SnapThreads == 1
\* The greatest string length given to the slow path on a new arena.
SlowSweep == 80
\* The string lengths of SpecSizes: 0 .. SizeSweep and the SizeSweep + 1
\* greatest values of a usize.
SizeSweep == 40
\* The capacities whose probe sequences are enumerated in full:
\* ENTRIES_INITIAL_CAPACITY doubled up to MaxDoublings times.
MaxDoublings == 4

(***************************************************************************)
(* Machine types and the constants of src/src/constants.rs.                *)
(***************************************************************************)
\* size_of::<usize>() on the 64-bit target.
SIZE_OF_USIZE == 8
\* size_of::<u64>().
SIZE_OF_U64 == 8
\* size_of::<Chunk>(): prev, size, cur, low, one word each.
SIZE_OF_CHUNK == 32
\* size_of::<Option<Entry>>(): a NonNull pointer, None being the null word.
SIZE_OF_SLOT == 8
\* usize::MAX, scaled from 2^64 - 1 to a 16-bit address space.
USIZE_MAX == 65535
\* The width of the hash, scaled from the 64 bits of u64 (= usize::BITS).
HASH_BITS == 5

ALLOC_ALIGNMENT == SIZE_OF_USIZE
\* Scaled from 1 << 13.
CHUNK_DEFAULT_CAPACITY == 96
\* Scaled from 1 << 7.
CHUNK_USABLE_THRESHOLD == 32
\* Scaled from 6.
BUCKET_MASK_BITS == 2
BUCKET_NUMBER == 2 ^ BUCKET_MASK_BITS
BUCKET_RSHIFT == HASH_BITS - BUCKET_MASK_BITS
\* Scaled from 1 << 10.
ENTRIES_INITIAL_CAPACITY == 4

\* The address of the static DUMMY_CHUNK.
DUMMY_CHUNK == 1024
\* NonNull::dangling() for a Chunk: its alignment.
DANGLING == 8
\* The first address the allocator hands out.
HEAP_BASE == 4096
\* A byte of memory that was never written.
UNINIT == -1

Stores == {1, 2}
Buckets == 0 .. BUCKET_NUMBER - 1
Threads == 1 .. NumThreads
\* usize::BITS of the two targets, scaled as the hash is: on the 64-bit
\* target a usize is as wide as the hash, on the 32-bit target narrower.
USIZE_BITS_64 == HASH_BITS
USIZE_BITS_32 == 3
\* The multipliers get_hash may be built with (see get_hash).
HashMults == {0, 1, 8}

(***************************************************************************)
(* Integer helpers: the machine operations the code uses.                  *)
(***************************************************************************)
RECURSIVE BitAnd(_, _)
BitAnd(a, b) ==
    IF a = 0 \/ b = 0 THEN 0
    ELSE (a % 2) * (b % 2) + 2 * BitAnd(a \div 2, b \div 2)

\* usize::checked_add: -1 stands for None.
checked_add(a, b) == IF a + b > USIZE_MAX THEN -1 ELSE a + b

\* usize::checked_sub: -1 stands for None.
checked_sub(a, b) == IF a < b THEN -1 ELSE a - b

\* n & !(alignment - 1), alignment a power of two.
round_down(n, alignment) == n - BitAnd(n, alignment - 1)

\* checked_add(n, alignment - 1) & !(alignment - 1); -1 stands for None.
round_up(n, alignment) ==
    LET added == checked_add(n, alignment - 1)
    IN  IF added = -1 THEN -1 ELSE round_down(added, alignment)

RECURSIVE SumOver(_, _)
SumOver(S, f) ==
    IF S = {} THEN 0
    ELSE LET x == CHOOSE y \in S : TRUE
         IN  f[x] + SumOver(S \ {x}, f)

(***************************************************************************)
(* The strings of the pool.  Their lengths cover the empty string, lengths *)
(* that are and are not a multiple of the alignment, two different strings *)
(* of one length, the length whose record exactly fills a default chunk,   *)
(* and the first length that needs an oversized chunk.                     *)
(***************************************************************************)
BoundaryLen == CHUNK_DEFAULT_CAPACITY - SIZE_OF_CHUNK - SIZE_OF_USIZE - SIZE_OF_U64

LenOf(i) ==
    CASE i = 1 -> 0
      [] i = 2 -> 1
      [] i = 3 -> 1
      [] i = 4 -> BoundaryLen
      [] i = 5 -> BoundaryLen + 1
      [] i = 6 -> 8
      [] OTHER -> 2 + (i % 7)

StringOf(i) == [k \in 1 .. LenOf(i) |-> 97 + ((5 * i + k) % 26)]

Pool == {StringOf(i) : i \in 1 .. PoolSize}

(***************************************************************************)
(* Byte-addressed memory: a function from the addresses written so far to  *)
(* bytes.                                                                  *)
(***************************************************************************)
ReadByte(m, a) == IF a \in DOMAIN m THEN m[a] ELSE UNINIT

\* ptr::copy_nonoverlapping(src, dest, len) with the source bytes bs.
WriteBytes(m, a, bs) ==
    [x \in a .. a + Len(bs) - 1 |-> bs[x - a + 1]] @@ m

\* The little-endian bytes of v, n of them.
RECURSIVE LEBytes(_, _)
LEBytes(v, n) == IF n = 0 THEN <<>> ELSE <<v % 256>> \o LEBytes(v \div 256, n - 1)

\* The value of n little-endian bytes at a; UNINIT when one was never written.
RECURSIVE ReadLE(_, _, _)
ReadLE(m, a, n) ==
    IF n = 0 THEN 0
    ELSE LET lo == ReadByte(m, a)
             hi == ReadLE(m, a + 1, n - 1)
         IN  IF lo = UNINIT \/ hi = UNINIT THEN UNINIT ELSE lo + 256 * hi

\* ptr::write of a usize or u64 (8 bytes each).
WriteWord(m, a, v) == WriteBytes(m, a, LEBytes(v, SIZE_OF_USIZE))

\* ptr::read of a usize or u64.
ReadWord(m, a) == ReadLE(m, a, SIZE_OF_USIZE)

(***************************************************************************)
(* Entry: a pointer to the length field of a record.                       *)
(*   | hash (u64) | len (usize) | chars (len) |                            *)
(*                ^ pointer                                                *)
(***************************************************************************)
\* Entry::as_str: the length at the pointer, the characters after it.
Entry_as_str(m, ptr) ==
    LET str_len == ReadWord(m, ptr)
    IN  IF str_len = UNINIT THEN <<UNINIT>>
        ELSE [k \in 1 .. str_len |-> ReadByte(m, ptr + SIZE_OF_USIZE + k - 1)]

\* The hash read at the length field, not before it.
Entry_hash_at_len(m, ptr) == ReadWord(m, ptr)

\* Entry::hash: the u64 before the pointer.
Entry_hash(m, ptr) == ReadWord(m, ptr - SIZE_OF_U64)

(***************************************************************************)
(* Chunk (src/src/arena.rs).  A chunk is named by the address of its       *)
(* header, which lies in the tail of its allocation; ch maps these         *)
(* addresses to the headers.  h is the heap: [mem, ch, brk].               *)
(***************************************************************************)
DummyChunk == [prev |-> DANGLING, size |-> 0, cur |-> DUMMY_CHUNK, low |-> DUMMY_CHUNK]

Chunk_is_dummy(c) == c = DUMMY_CHUNK

\* A test by which no displaced chunk is worth keeping.
Chunk_is_never_usable(h, c) == FALSE

Chunk_is_still_usable(h, c) == (h.ch[c].cur - h.ch[c].low) >= CHUNK_USABLE_THRESHOLD

\* A test that forgets the header the chunk keeps in its own memory.
Chunk_is_exceed_whole_chunk(needed_bytes) == needed_bytes > CHUNK_DEFAULT_CAPACITY

Chunk_is_exceed_default_capacity(needed_bytes) ==
    needed_bytes > CHUNK_DEFAULT_CAPACITY - SIZE_OF_CHUNK

Chunk_needed_bytes_for_string(str_len) ==
    checked_add(str_len, SIZE_OF_USIZE + SIZE_OF_U64)

\* An allocator that returns one address for every request.
Alloc_fixed(h, size) == HEAP_BASE

\* std::alloc::alloc with a layout of `size` bytes: the lowest free address;
\* the allocator never reuses the memory of a live allocation.
Alloc(h, size) == h.brk

\* The header Chunk::try_new_with_size writes into the tail of [low, low + size).
Chunk_header(prev, size, low) ==
    [prev |-> prev, size |-> size, cur |-> low + size - SIZE_OF_CHUNK, low |-> low]

\* Chunk::try_new_with_size after the rounding of the size.  ok: whether the
\* allocator returns memory.  Result: tag "some" (chunk, h), "none" (alloc
\* returned null) or the panic "too large".
Chunk_try_new_rounded(h, prev, size, ok) ==
    IF size = -1 THEN [tag |-> "too large", chunk |-> 0, h |-> h]
    ELSE IF ~ok THEN [tag |-> "none", chunk |-> 0, h |-> h]
    ELSE [tag |-> "some",
          chunk |-> Alloc(h, size) + size - SIZE_OF_CHUNK,
          h |-> [mem |-> h.mem,
                 brk |-> Alloc(h, size) + size,
                 ch |-> (Alloc(h, size) + size - SIZE_OF_CHUNK
                            :> Chunk_header(prev, size, Alloc(h, size))) @@ h.ch]]

\* Chunk::try_new_with_size.
Chunk_try_new_with_size(h, prev, size, ok) ==
    Chunk_try_new_rounded(h, prev, round_up(size, ALLOC_ALIGNMENT), ok)

\* .expect("oom") on the result of try_new_with_size.
Chunk_expect_oom(r) == IF r.tag = "none" THEN [r EXCEPT !.tag = "oom"] ELSE r

\* Chunk::new: tag "some", or the panic "oom" / "too large".
Chunk_new(h, prev, ok) ==
    Chunk_expect_oom(Chunk_try_new_with_size(h, prev, CHUNK_DEFAULT_CAPACITY, ok))

\* Chunk::new_for_needed_bytes.
Chunk_new_for_needed_bytes(h, prev, bytes, ok) ==
    IF checked_add(bytes, SIZE_OF_CHUNK) = -1
    THEN [tag |-> "too large", chunk |-> 0, h |-> h]
    ELSE Chunk_expect_oom(
             Chunk_try_new_with_size(h, prev, checked_add(bytes, SIZE_OF_CHUNK), ok))

\* A swap that leaves second.prev as it is.
Chunk_swap_no_relink(h, first, second) ==
    [h EXCEPT !.ch[first].prev = second]

\* Chunk::swap(first, second).
Chunk_swap(h, first, second) ==
    [h EXCEPT !.ch = [x \in DOMAIN h.ch |->
                        IF x = first THEN [h.ch[x] EXCEPT !.prev = second]
                        ELSE IF x = second
                        THEN [h.ch[x] EXCEPT !.prev = h.ch[first].prev]
                        ELSE h.ch[x]]]

\* Writes that leave the cursor where it was.
Chunk_write_record_in_place(h, c, hash, string, dest_char_ptr) ==
    [h EXCEPT
       !.mem = WriteWord(
                   WriteWord(WriteBytes(h.mem, dest_char_ptr, string),
                             dest_char_ptr - SIZE_OF_USIZE, Len(string)),
                   dest_char_ptr - SIZE_OF_USIZE - SIZE_OF_U64, hash)]

\* A record whose length field holds the padded length.
Chunk_write_record_padded(h, c, hash, string, dest_char_ptr) ==
    [h EXCEPT
       !.mem = WriteWord(
                   WriteWord(WriteBytes(h.mem, dest_char_ptr, string),
                             dest_char_ptr - SIZE_OF_USIZE,
                             round_up(Len(string), ALLOC_ALIGNMENT)),
                   dest_char_ptr - SIZE_OF_USIZE - SIZE_OF_U64, hash),
       !.ch[c].cur = dest_char_ptr - SIZE_OF_USIZE - SIZE_OF_U64]

\* The writes of Chunk::try_alloc_str, the characters going to dest_char_ptr.
Chunk_write_record(h, c, hash, string, dest_char_ptr) ==
    [h EXCEPT
       !.mem = WriteWord(
                   WriteWord(WriteBytes(h.mem, dest_char_ptr, string),
                             dest_char_ptr - SIZE_OF_USIZE, Len(string)),
                   dest_char_ptr - SIZE_OF_USIZE - SIZE_OF_U64, hash),
       !.ch[c].cur = dest_char_ptr - SIZE_OF_USIZE - SIZE_OF_U64]

\* A test of the room that refuses the record that fits exactly.
Chunk_try_alloc_at_strict(h, c, hash, string, dest_char_ptr) ==
    IF dest_char_ptr <= h.ch[c].low + SIZE_OF_USIZE + SIZE_OF_U64
    THEN [tag |-> "none", ptr |-> 0, h |-> h]
    ELSE [tag |-> "some",
          ptr |-> dest_char_ptr - SIZE_OF_USIZE,
          h |-> Chunk_write_record(h, c, hash, string, dest_char_ptr)]

\* Chunk::try_alloc_str from the test of the room on.
Chunk_try_alloc_at(h, c, hash, string, dest_char_ptr) ==
    IF dest_char_ptr < h.ch[c].low + SIZE_OF_USIZE + SIZE_OF_U64
    THEN [tag |-> "none", ptr |-> 0, h |-> h]
    ELSE [tag |-> "some",
          ptr |-> dest_char_ptr - SIZE_OF_USIZE,
          h |-> Chunk_write_record(h, c, hash, string, dest_char_ptr)]

\* Chunk::try_alloc_str on chunk c.  Result: tag "some" (ptr, h), "none" (no
\* room) or the panic "too large".
Chunk_try_alloc_str(h, c, hash, string) ==
    IF checked_sub(h.ch[c].cur, Len(string)) = -1
    THEN [tag |-> "too large", ptr |-> 0, h |-> h]
    ELSE Chunk_try_alloc_at(h, c, hash, string,
             round_down(checked_sub(h.ch[c].cur, Len(string)), ALLOC_ALIGNMENT))

(***************************************************************************)
(* Arena (src/src/arena.rs): the address of its head chunk.                *)
(***************************************************************************)
Arena_new == DUMMY_CHUNK

\* The result of alloc_str: tag "ok" (ptr) or the panic message, with the
\* heap and the head as the call leaves them.
Arena_result(tag, ptr, h, head) == [tag |-> tag, ptr |-> ptr, h |-> h, head |-> head]

\* The end of the slow path: .expect("internal error") on the allocation a
\* in the new chunk.
Arena_slow_expect(h, head, a) ==
    IF a.tag = "some" THEN Arena_result("ok", a.ptr, a.h, head)
    ELSE IF a.tag = "none" THEN Arena_result("internal error", 0, h, head)
    ELSE Arena_result(a.tag, 0, h, head)

\* The slow path once the new chunk n is made: the chaining, the allocation.
Arena_slow_chain(h, head, hash, string, big, n) ==
    IF n.tag # "some" THEN Arena_result(n.tag, 0, h, head)
    ELSE IF big /\ Chunk_is_still_usable(n.h, head)
    THEN Arena_slow_expect(Chunk_swap(n.h, head, n.chunk), head,
             Chunk_try_alloc_str(Chunk_swap(n.h, head, n.chunk), n.chunk, hash, string))
    ELSE Arena_slow_expect(n.h, n.chunk,
             Chunk_try_alloc_str(n.h, n.chunk, hash, string))

\* The slow path once needed_bytes is known.
Arena_slow_new_chunk(h, head, hash, string, ok, needed_bytes) ==
    IF needed_bytes = -1 THEN Arena_result("too large", 0, h, head)
    ELSE IF Chunk_is_exceed_default_capacity(needed_bytes)
    THEN Arena_slow_chain(h, head, hash, string, TRUE,
                          Chunk_new_for_needed_bytes(h, head, needed_bytes, ok))
    ELSE Arena_slow_chain(h, head, hash, string, FALSE, Chunk_new(h, head, ok))

\* Arena::try_alloc_str_slow_path.
Arena_try_alloc_str_slow_path(h, head, hash, string, ok) ==
    Arena_slow_new_chunk(h, head, hash, string, ok,
                         Chunk_needed_bytes_for_string(Len(string)))

\* Arena::alloc_str once the fast path returned f.
Arena_alloc_str_after(h, head, hash, string, ok, f) ==
    IF f.tag = "some" THEN Arena_result("ok", f.ptr, f.h, head)
    ELSE IF f.tag = "none"
    THEN Arena_try_alloc_str_slow_path(h, head, hash, string, ok)
    ELSE Arena_result(f.tag, 0, h, head)

\* Arena::alloc_str: the fast path on the head chunk, else the slow path.
Arena_alloc_str(h, head, hash, string, ok) ==
    Arena_alloc_str_after(h, head, hash, string, ok,
                          Chunk_try_alloc_str(h, head, hash, string))

\* Arena::allocated_memory: the sizes along the prev chain from the head to
\* the dummy chunk.  fuel bounds the walk: a chain that does not reach the
\* dummy chunk within it (a cycle, a dangling link) makes the loop run
\* forever or read invalid memory, reported as -1.
RECURSIVE Arena_walk(_, _, _, _)
Arena_walk(ch, chunk, fuel, size) ==
    IF Chunk_is_dummy(chunk) THEN size
    ELSE IF fuel = 0 \/ chunk \notin DOMAIN ch THEN -1
    ELSE Arena_walk(ch, ch[chunk].prev, fuel - 1, size + ch[chunk].size)

\* A sum that stops after the head chunk.
Arena_allocated_memory_head(h, head) ==
    IF Chunk_is_dummy(head) THEN 0 ELSE h.ch[head].size

Arena_allocated_memory(h, head) ==
    Arena_walk(h.ch, head, Cardinality(DOMAIN h.ch), 0)

(***************************************************************************)
(* Entries (src/src/entry.rs): [data, growth_left, mask].  data is the     *)
(* slot array, data[p + 1] being the slot at position p; 0 is None.        *)
(***************************************************************************)
\* Entries::new: data points to the static DUMMY_ENTRY_SLOT, a None.
Entries_new == [data |-> <<0>>, growth_left |-> 0, mask |-> 0]

Entries_allocated(e) == e.mask # 0

Entries_capacity(e) == e.mask + 1

Entries_capacity_to_mask(capacity) == capacity - 1

\* A capacity that doubles from 1 on.
Entries_next_capacity_double(capacity) == capacity * 2

Entries_next_capacity(capacity) ==
    IF capacity = 1 THEN ENTRIES_INITIAL_CAPACITY ELSE capacity * 2

Entries_max_item_count(capacity) == (capacity \div 4) * 3

\* The bytes of the table taken from the mask, one slot short.
Entries_allocated_memory_mask(e) ==
    IF Entries_allocated(e) THEN SIZE_OF_SLOT * e.mask ELSE 0

Entries_allocated_memory(e) ==
    IF Entries_allocated(e) THEN SIZE_OF_SLOT * Entries_capacity(e) ELSE 0

\* A probe that steps by two.
Probe_step_by_two(pos, dist, mask) == BitAnd(pos + 2, mask)

\* One step of a probe loop: dist += 1; pos = (pos + dist) & mask, dist being
\* the distance before the step.
Probe_step(pos, dist, mask) == BitAnd(pos + dist + 1, mask)

\* A rehash that probes slot after slot.
RECURSIVE Grow_probe_linear(_, _, _, _)
Grow_probe_linear(new_data, new_mask, pos, dist) ==
    IF new_data[pos + 1] = 0 THEN pos
    ELSE IF dist > new_mask THEN -1
    ELSE Grow_probe_linear(new_data, new_mask, BitAnd(pos + 1, new_mask), dist + 1)

\* A rehash that takes the first slot of the probe, occupied or not.
Grow_probe_first(new_data, new_mask, pos, dist) == pos

\* The inner loop of grow: from pos, the first None slot of the new table on
\* the probe sequence.  A probe that passes more slots than the table has
\* never ends (every slot it can reach is taken): -1.
RECURSIVE Grow_probe(_, _, _, _)
Grow_probe(new_data, new_mask, pos, dist) ==
    IF new_data[pos + 1] = 0 THEN pos
    ELSE IF dist > new_mask THEN -1
    ELSE Grow_probe(new_data, new_mask, Probe_step(pos, dist, new_mask), dist + 1)

\* The loop of grow over the old slots k, k + 1, ..: st is [data, remaining,
\* ok]; it stops when remaining reaches 0 after a placement.
RECURSIVE Grow_rehash(_, _, _, _, _)
\* The body of the loop for an occupied slot, pos being the slot found for it.
Grow_place(m, old_data, k, new_mask, st, pos) ==
    IF pos = -1 THEN [st EXCEPT !.ok = FALSE]
    ELSE IF (st.remaining - 1) % (USIZE_MAX + 1) = 0
    THEN [data |-> [st.data EXCEPT ![pos + 1] = old_data[k]],
          remaining |-> 0, ok |-> TRUE]
    ELSE Grow_rehash(m, old_data, k + 1, new_mask,
                     [data |-> [st.data EXCEPT ![pos + 1] = old_data[k]],
                      remaining |-> (st.remaining - 1) % (USIZE_MAX + 1),
                      ok |-> TRUE])

Grow_rehash(m, old_data, k, new_mask, st) ==
    IF k > Len(old_data) \/ ~st.ok THEN st
    ELSE IF old_data[k] = 0 THEN Grow_rehash(m, old_data, k + 1, new_mask, st)
    ELSE Grow_place(m, old_data, k, new_mask, st,
                    Grow_probe(st.data, new_mask,
                               BitAnd(Entry_hash(m, old_data[k]), new_mask), 0))

\* The end of grow: the new table r replaces the old one.
Grow_finish(e, cur_capacity, new_capacity, r) ==
    IF ~r.ok THEN [tag |-> "hang", e |-> e]
    ELSE [tag |-> "ok",
          e |-> [data |-> r.data,
                 growth_left |-> Entries_max_item_count(new_capacity)
                                   - Entries_max_item_count(cur_capacity),
                 mask |-> Entries_capacity_to_mask(new_capacity)]]

\* A rehash that stops one entry early.
Grow_to_short(m, e, cur_capacity, new_capacity, ok) ==
    IF ~ok THEN [tag |-> "oom", e |-> e]
    ELSE Grow_finish(e, cur_capacity, new_capacity,
             Grow_rehash(m, e.data, 1, Entries_capacity_to_mask(new_capacity),
                         [data |-> [p \in 1 .. new_capacity |-> 0],
                          remaining |-> Entries_max_item_count(cur_capacity) - 1,
                          ok |-> TRUE]))

\* grow from the allocation of the new table on.
Grow_to(m, e, cur_capacity, new_capacity, ok) ==
    IF ~ok THEN [tag |-> "oom", e |-> e]
    ELSE Grow_finish(e, cur_capacity, new_capacity,
             Grow_rehash(m, e.data, 1, Entries_capacity_to_mask(new_capacity),
                         [data |-> [p \in 1 .. new_capacity |-> 0],
                          remaining |-> Entries_max_item_count(cur_capacity),
                          ok |-> TRUE]))

\* Entries::grow.  ok: whether the allocator returns the new table.
\* Result: tag "ok" (e), or the panic "oom", or "hang" when a probe of the
\* rehash never ends.
Entries_grow(m, e, ok) ==
    Grow_to(m, e, Entries_capacity(e), Entries_next_capacity(Entries_capacity(e)), ok)

\* A test of the hash alone.
Entry_matches_hash_only(m, entry, hash, string) == Entry_hash(m, entry) = hash

\* The test of an occupied slot in get_or_insert.
Entry_matches(m, entry, hash, string) ==
    Entry_hash(m, entry) = hash /\ Entry_as_str(m, entry) = string

\* The probe loop of get_or_insert: [kind |-> "hit", entry], or
\* [kind |-> "slot", pos] at the first None slot, or "hang" as in Grow_probe.
RECURSIVE Entries_probe(_, _, _, _, _, _)
Entries_probe(m, e, pos, dist, hash, string) ==
    IF e.data[pos + 1] = 0 THEN [kind |-> "slot", entry |-> 0, pos |-> pos]
    ELSE IF Entry_matches(m, e.data[pos + 1], hash, string)
    THEN [kind |-> "hit", entry |-> e.data[pos + 1], pos |-> pos]
    ELSE IF dist > e.mask THEN [kind |-> "hang", entry |-> 0, pos |-> pos]
    ELSE Entries_probe(m, e, Probe_step(pos, dist, e.mask), dist + 1, hash, string)

\* The result of the probe p on the table e.
Lookup_result(e, p) ==
    [tag |-> IF p.kind = "hang" THEN "hang" ELSE "ok", e |-> e, probe |-> p]

\* get_or_insert after the growth g, if any: the probe.
Lookup_probe(m, g, hash, string) ==
    IF g.tag # "ok" THEN [tag |-> g.tag, e |-> g.e, probe |-> <<>>]
    ELSE Lookup_result(g.e,
             Entries_probe(m, g.e, BitAnd(g.e.mask, hash), 0, hash, string))

\* get_or_insert up to the end of its probe loop: the growth when
\* growth_left is 0, then the probe.  Result: tag "ok" (e, probe) or a panic.
Entries_lookup(m, e, hash, string, ok) ==
    IF e.growth_left = 0
    THEN Lookup_probe(m, Entries_grow(m, e, ok), hash, string)
    ELSE Lookup_probe(m, [tag |-> "ok", e |-> e], hash, string)

\* An insertion that leaves growth_left as it was.
Entries_insert_uncounted(e, pos, new_entry) == [e EXCEPT !.data[pos + 1] = new_entry]

\* The end of get_or_insert on a miss: *slot = Some(new_entry) and
\* growth_left -= 1.
Entries_insert(e, pos, new_entry) ==
    [e EXCEPT !.data[pos + 1] = new_entry,
              !.growth_left = (e.growth_left - 1) % (USIZE_MAX + 1)]

(***************************************************************************)
(* The state.                                                              *)
(***************************************************************************)
VARIABLES
    buckets,    \* buckets[st][b]: the BucketImpl [arena, entries] of a Repository
    locks,      \* locks[st][b]: the thread holding the bucket's Mutex, or 0
    mem,        \* the bytes of the chunks
    chunks,     \* the chunk headers, by address
    brk,        \* the allocator's next free address
    hashMult,   \* the hash function in use (see get_hash)
    pc,         \* pc[t]: where thread t is in Repository::get_or_insert
    arg,        \* arg[t]: the string of thread t's call
    slot,       \* slot[t]: the slot the probe loop of thread t broke with
    first,      \* first[st][i]: the handle the first intern of StringOf(i) returned, or 0
    last,       \* the last call of intern that ended: its outcome and result
    calc        \* the last computation made on its own: inputs and results

vars == <<buckets, locks, mem, chunks, brk, hashMult, pc, arg, slot, first, last,
          calc>>

Heap == [mem |-> mem, ch |-> chunks, brk |-> brk]

(***************************************************************************)
(* BucketImpl and Repository (src/src/repository.rs).                      *)
(***************************************************************************)
\* Bucket::default().
Bucket_default == [arena |-> Arena_new, entries |-> Entries_new]

\* Repository::new.
Repository_new == [b \in Buckets |-> Bucket_default]

\* Repository::get_hash: ahash with fixed seeds, a function of the bytes
\* alone.  The function is not part of the repository; the model takes one
\* of a family, fixed in the initial state: multiplier 0 gives all strings
\* one hash, 1 puts all in one bucket at different positions, 8 spreads them
\* over the buckets with equal low bits and with pairs of equal hashes.
get_hash(string) ==
    LET code == CHOOSE i \in 1 .. PoolSize : StringOf(i) = string
    IN  (hashMult * code) % (2 ^ HASH_BITS)

\* Repository::determine_bucket: (hash >> BUCKET_RSHIFT) as usize.
determine_bucket(hash) == hash \div (2 ^ BUCKET_RSHIFT)

\* A miss that makes the record and leaves the slot empty.
BucketImpl_insert_entry_orphan(bk, pos, a) ==
    IF a.tag # "ok"
    THEN [tag |-> a.tag, hit |-> FALSE, entry |-> 0, h |-> a.h,
          bk |-> [bk EXCEPT !.arena = a.head]]
    ELSE [tag |-> "ok", hit |-> FALSE, entry |-> a.ptr, h |-> a.h,
          bk |-> [bk EXCEPT !.arena = a.head]]

\* The end of Entries::get_or_insert on a miss, a being what the
\* entry_factory closure (Entry(self.arena.alloc_str(hash, string))) gave.
BucketImpl_insert_entry(bk, pos, a) ==
    IF a.tag # "ok"
    THEN [tag |-> a.tag, hit |-> FALSE, entry |-> 0, h |-> a.h,
          bk |-> [bk EXCEPT !.arena = a.head]]
    ELSE [tag |-> "ok", hit |-> FALSE, entry |-> a.ptr, h |-> a.h,
          bk |-> [arena |-> a.head,
                  entries |-> Entries_insert(bk.entries, pos, a.ptr)]]

\* Entries::get_or_insert after the probe broke with slot pos: the factory
\* closure of BucketImpl::get_or_insert, then the slot and growth_left.
\* Result: tag "ok" or the panic, the entry, the heap and the bucket.
BucketImpl_insert(h, bk, pos, hash, string, ok) ==
    BucketImpl_insert_entry(bk, pos, Arena_alloc_str(h, bk.arena, hash, string, ok))

\* BucketImpl::get_or_insert once the lookup l is done.
BucketImpl_after_lookup(h, bk, hash, string, chunkOk, l) ==
    IF l.tag # "ok"
    THEN [tag |-> l.tag, hit |-> FALSE, entry |-> 0, h |-> h,
          bk |-> [bk EXCEPT !.entries = l.e]]
    ELSE IF l.probe.kind = "hit"
    THEN [tag |-> "ok", hit |-> TRUE, entry |-> l.probe.entry, h |-> h,
          bk |-> [bk EXCEPT !.entries = l.e]]
    ELSE BucketImpl_insert(h, [bk EXCEPT !.entries = l.e], l.probe.pos,
                           hash, string, chunkOk)

\* BucketImpl::get_or_insert.  tblOk, chunkOk: whether the allocator returns
\* memory for a table and for a chunk, should the call ask.
\* Result: tag "ok" or the panic, hit, the entry, the heap and the bucket.
BucketImpl_get_or_insert(h, bk, hash, string, tblOk, chunkOk) ==
    BucketImpl_after_lookup(h, bk, hash, string, chunkOk,
        Entries_lookup(h.mem, bk.entries, hash, string, tblOk))

\* The contribution of one bucket to Repository::allocated_memory.
Bucket_allocated_memory(h, bk) ==
    Entries_allocated_memory(bk.entries) + Arena_allocated_memory(h, bk.arena)

\* Repository::allocated_memory on a repository no call is running on.
Repository_allocated_memory(h, repo) ==
    SumOver(Buckets, [b \in Buckets |-> Bucket_allocated_memory(h, repo[b])])

(***************************************************************************)
(* What the arenas hold, read from memory: the records of a chunk lie one  *)
(* after the other from its cursor up to its header.                       *)
(***************************************************************************)
RECURSIVE Chunk_records(_, _, _)
\* The records from address a on, the length of the one at a being str_len.
Chunk_records_from(m, a, top, str_len) ==
    IF str_len = UNINIT THEN {a + SIZE_OF_U64}
    ELSE {a + SIZE_OF_U64}
         \cup Chunk_records(m,
                a + SIZE_OF_U64 + SIZE_OF_USIZE
                  + round_down(str_len + ALLOC_ALIGNMENT - 1, ALLOC_ALIGNMENT),
                top)

Chunk_records(m, a, top) ==
    IF a >= top THEN {}
    ELSE Chunk_records_from(m, a, top, ReadWord(m, a + SIZE_OF_U64))

\* The chunks on the prev chain from chunk.
RECURSIVE Arena_chain(_, _, _)
Arena_chain(ch, chunk, fuel) ==
    IF Chunk_is_dummy(chunk) \/ fuel = 0 \/ chunk \notin DOMAIN ch THEN {}
    ELSE {chunk} \cup Arena_chain(ch, ch[chunk].prev, fuel - 1)

\* The records of an arena: pointers to their length fields.
Arena_records(h, head) ==
    UNION {Chunk_records(h.mem, h.ch[c].cur, c) :
             c \in Arena_chain(h.ch, head, Cardinality(DOMAIN h.ch))}

\* The number of records of a repository.
Repository_records(h, repo) ==
    SumOver(Buckets, [b \in Buckets |-> Cardinality(Arena_records(h, repo[b].arena))])

(***************************************************************************)
(* The initial state: two repositories, newly constructed.                 *)
(***************************************************************************)
NoCall == [op |-> "none", st |-> 0, i |-> 0, h |-> 0, prior |-> 0]

NoCalc == [op |-> "none", bits |-> 0, input |-> 0, output |-> 0, tag |-> "none",
           before |-> <<>>]

Init ==
    /\ buckets = [st \in Stores |-> Repository_new]
    /\ locks = [st \in Stores |-> [b \in Buckets |-> 0]]
    /\ mem = <<>>
    /\ chunks = (DUMMY_CHUNK :> DummyChunk)
    /\ brk = HEAP_BASE
    /\ hashMult \in HashMults
    /\ pc = [t \in Threads |-> "idle"]
    /\ arg = [t \in Threads |-> 0]
    /\ slot = [t \in Threads |-> 0]
    /\ first = [st \in Stores |-> [i \in 1 .. PoolSize |-> 0]]
    /\ last = NoCall
    /\ calc = NoCalc

(***************************************************************************)
(* ScopedSto::intern_in(StringOf(i), repository st) by a single caller:    *)
(* Repository::get_or_insert from the hash to the release of the lock.     *)
(***************************************************************************)
\* What the allocator may do during one call: serve every request, refuse
\* the table Entries::grow asks for, or refuse the chunk the arena asks for.
AllocOutcomes == {"serve", "no table", "no chunk"}

\* A call whose result is stored into the bucket after the one it ran on.
Returned_elsewhere(st, i, b, r) ==
    /\ buckets' = [buckets EXCEPT ![st][(b + 1) % BUCKET_NUMBER] = r.bk]
    /\ mem' = r.h.mem
    /\ chunks' = r.h.ch
    /\ brk' = r.h.brk
    /\ first' = IF r.tag = "ok" /\ first[st][i] = 0
                THEN [first EXCEPT ![st][i] = r.entry] ELSE first
    /\ last' = [op |-> IF r.tag # "ok" THEN r.tag
                       ELSE IF r.hit THEN "hit" ELSE "miss",
                st |-> st, i |-> i, h |-> r.entry, prior |-> first[st][i]]

\* The state after a call on bucket b of repository st ended with result r.
Returned(st, i, b, r) ==
    /\ buckets' = [buckets EXCEPT ![st][b] = r.bk]
    /\ mem' = r.h.mem
    /\ chunks' = r.h.ch
    /\ brk' = r.h.brk
    /\ first' = IF r.tag = "ok" /\ first[st][i] = 0
                THEN [first EXCEPT ![st][i] = r.entry] ELSE first
    /\ last' = [op |-> IF r.tag # "ok" THEN r.tag
                       ELSE IF r.hit THEN "hit" ELSE "miss",
                st |-> st, i |-> i, h |-> r.entry, prior |-> first[st][i]]

HashOf(i) == get_hash(StringOf(i))

BucketOf(i) == determine_bucket(HashOf(i))

\* Repository::get_or_insert from determine_bucket on.
Repository_get_or_insert(st, i, hash, alloc) ==
    /\ locks[st][determine_bucket(hash)] = 0
    /\ Returned(st, i, determine_bucket(hash),
                BucketImpl_get_or_insert(Heap, buckets[st][determine_bucket(hash)],
                                         hash, StringOf(i),
                                         alloc # "no table", alloc # "no chunk"))

Intern(st, i) ==
    \E alloc \in AllocOutcomes :
        /\ \A t \in Threads : pc[t] = "idle"
        /\ Repository_get_or_insert(st, i, HashOf(i), alloc)
        /\ UNCHANGED <<locks, hashMult, pc, arg, slot, calc>>

Next == \E i \in 1 .. PoolSize : Intern(1, i)

Spec == Init /\ [][Next]_vars

(***************************************************************************)
(* The same call by concurrent threads on repository 1.  The call holds    *)
(* the bucket's Mutex from .lock() to the end of the statement; what it    *)
(* does meanwhile is taken in two steps, the probe and the insertion, so   *)
(* that the exclusion is the lock's doing and not the model's.             *)
(***************************************************************************)
\* A lock that excludes nobody.
Mutex_never_held(st, b) == TRUE

\* parking_lot's Mutex::lock returns once no thread holds the mutex.
Mutex_is_free(st, b) == locks[st][b] = 0

\* The thread's call has ended with result r: the guard is dropped.
Leave(t, st, i, r) ==
    /\ Returned(st, i, BucketOf(i), r)
    /\ locks' = [locks EXCEPT ![st][BucketOf(i)] = 0]
    /\ pc' = [pc EXCEPT ![t] = "idle"]
    /\ arg' = [arg EXCEPT ![t] = 0]
    /\ slot' = [slot EXCEPT ![t] = 0]
    /\ UNCHANGED <<hashMult, calc>>

\* let hash = Self::get_hash(string): thread t enters get_or_insert.
Call(t, i) ==
    /\ pc[t] = "idle"
    /\ pc' = [pc EXCEPT ![t] = "hashed"]
    /\ arg' = [arg EXCEPT ![t] = i]
    /\ UNCHANGED <<buckets, locks, mem, chunks, brk, hashMult, slot, first, last, calc>>

\* self.buckets[Self::determine_bucket(hash)].0.lock()
Lock(t) ==
    /\ pc[t] = "hashed"
    /\ Mutex_is_free(1, BucketOf(arg[t]))
    /\ locks' = [locks EXCEPT ![1][BucketOf(arg[t])] = t]
    /\ pc' = [pc EXCEPT ![t] = "locked"]
    /\ UNCHANGED <<buckets, mem, chunks, brk, hashMult, arg, slot, first, last, calc>>

\* The step of thread t once its lookup l is done: on to the insertion, or
\* out with the hit or the panic.
Looked_up(t, i, l) ==
    IF l.tag = "ok" /\ l.probe.kind = "slot"
    THEN /\ buckets' = [buckets EXCEPT ![1][BucketOf(i)].entries = l.e]
         /\ pc' = [pc EXCEPT ![t] = "probed"]
         /\ slot' = [slot EXCEPT ![t] = l.probe.pos]
         /\ UNCHANGED <<locks, mem, chunks, brk, hashMult, arg, first, last, calc>>
    ELSE Leave(t, 1, i,
               [tag |-> l.tag, hit |-> l.tag = "ok",
                entry |-> IF l.tag = "ok" THEN l.probe.entry ELSE 0,
                h |-> Heap,
                bk |-> [buckets[1][BucketOf(i)] EXCEPT !.entries = l.e]])

\* Entries::get_or_insert to the end of its probe loop.
Lookup(t) ==
    /\ pc[t] = "locked"
    /\ \E tblOk \in BOOLEAN :
        Looked_up(t, arg[t],
                  Entries_lookup(mem, buckets[1][BucketOf(arg[t])].entries,
                                 HashOf(arg[t]), StringOf(arg[t]), tblOk))

\* The rest of Entries::get_or_insert: entry_factory(), the slot, growth_left.
Insert(t) ==
    /\ pc[t] = "probed"
    /\ \E chunkOk \in BOOLEAN :
        Leave(t, 1, arg[t],
              BucketImpl_insert(Heap, buckets[1][BucketOf(arg[t])], slot[t],
                                HashOf(arg[t]), StringOf(arg[t]), chunkOk))

NextConc ==
    \E t \in Threads :
        \/ \E i \in 1 .. ConcPoolSize : Call(t, i)
        \/ Lock(t)
        \/ Lookup(t)
        \/ Insert(t)

SpecConc == Init /\ [][NextConc]_vars

(***************************************************************************)
(* Two repositories used side by side by a single caller.                  *)
(***************************************************************************)
NextCross == \E st \in Stores : \E i \in 1 .. CrossPoolSize : Intern(st, i)

SpecCross == Init /\ [][NextCross]_vars

(***************************************************************************)
(* The routing of Repository::get_or_insert on its own, for a target whose *)
(* usize has `bits` bits: self.buckets[Self::determine_bucket(hash)].      *)
(***************************************************************************)
\* BUCKET_RSHIFT = usize::BITS - BUCKET_MASK_BITS on that target.
BUCKET_RSHIFT_on(bits) == bits - BUCKET_MASK_BITS

\* Repository::determine_bucket on that target: the shift of the u64, then
\* `as usize`, which keeps the low `bits` bits.
determine_bucket_on(hash, bits) ==
    (hash \div (2 ^ BUCKET_RSHIFT_on(bits))) % (2 ^ bits)

\* The indexing of the array of BUCKET_NUMBER buckets, which is checked.
Buckets_index(index) == IF index < BUCKET_NUMBER THEN "ok" ELSE "index out of bounds"

\* One routing on the target the behaviour is about; before is the routing
\* made before it.
Route(hash, bits) ==
    /\ calc.op = "none" \/ calc.bits = bits
    /\ calc' = [op |-> "route", bits |-> bits, input |-> hash,
                output |-> determine_bucket_on(hash, bits),
                tag |-> Buckets_index(determine_bucket_on(hash, bits)),
                before |-> IF calc.op = "route"
                           THEN <<calc.input, calc.output>> ELSE <<>>]
    /\ UNCHANGED <<buckets, locks, mem, chunks, brk, hashMult, pc, arg, slot,
                   first, last>>

NextRoute ==
    \E hash \in 0 .. 2 ^ HASH_BITS - 1 : \E bits \in {USIZE_BITS_64, USIZE_BITS_32} :
        Route(hash, bits)

SpecRoute == Init /\ [][NextRoute]_vars

(***************************************************************************)
(* The sizes the code computes before it asks the allocator for memory,    *)
(* on their own: that of the table in Entries::grow and that of the chunk  *)
(* in Arena::try_alloc_str_slow_path.  The products of entry.rs are plain  *)
(* usize multiplications: a build with overflow checks panics when one     *)
(* overflows, a build without them goes on with the low bits.              *)
(***************************************************************************)
\* a * b on usize: -1 stands for the panic of a build with overflow checks.
usize_mul(a, b, checks) ==
    IF a * b <= USIZE_MAX THEN a * b
    ELSE IF checks THEN -1
    ELSE (a * b) % (USIZE_MAX + 1)

\* Entries::next_capacity with its multiplication as the build makes it.
Entries_next_capacity_on(capacity, checks) ==
    IF capacity = 1 THEN ENTRIES_INITIAL_CAPACITY ELSE usize_mul(capacity, 2, checks)

\* Entries::layout_of_capacity: the size of the layout.
Entries_layout_of_capacity(capacity, checks) == usize_mul(SIZE_OF_SLOT, capacity, checks)

\* The size grow hands to alloc once the new capacity is known.
Grow_layout(new_capacity, checks) ==
    IF new_capacity = -1
    THEN [tag |-> "attempt to multiply with overflow", capacity |-> 0, size |-> 0]
    ELSE IF Entries_layout_of_capacity(new_capacity, checks) = -1
    THEN [tag |-> "attempt to multiply with overflow", capacity |-> new_capacity,
          size |-> 0]
    ELSE [tag |-> "alloc", capacity |-> new_capacity,
          size |-> Entries_layout_of_capacity(new_capacity, checks)]

\* Entries::grow up to alloc(layout), of a table of capacity cur_capacity.
Grow_alloc(cur_capacity, checks) ==
    Grow_layout(Entries_next_capacity_on(cur_capacity, checks), checks)

\* The capacities an index can have in the address width.
RECURSIVE CapacitiesFrom(_)
CapacitiesFrom(capacity) ==
    IF capacity > USIZE_MAX THEN {}
    ELSE {capacity} \cup CapacitiesFrom(capacity * 2)

Capacities == {1} \cup CapacitiesFrom(ENTRIES_INITIAL_CAPACITY)

GrowSize(cur_capacity, checks) ==
    /\ calc' = [op |-> "grow", bits |-> 0, input |-> cur_capacity,
                output |-> Grow_alloc(cur_capacity, checks).size,
                tag |-> Grow_alloc(cur_capacity, checks).tag, before |-> <<>>]
    /\ UNCHANGED <<buckets, locks, mem, chunks, brk, hashMult, pc, arg, slot,
                   first, last>>

\* The chunk the slow path makes for a string of str_len bytes: tag "some"
\* (chunk, h), or the panic.
Arena_slow_chunk_for(h, head, needed_bytes, ok) ==
    IF needed_bytes = -1 THEN [tag |-> "too large", chunk |-> 0, h |-> h]
    ELSE IF Chunk_is_exceed_default_capacity(needed_bytes)
    THEN Chunk_new_for_needed_bytes(h, head, needed_bytes, ok)
    ELSE Chunk_new(h, head, ok)

\* The size of the chunk n.
Chunk_size_of(n) == IF n.tag = "some" THEN n.h.ch[n.chunk].size ELSE 0

RecordSize(str_len, ok) ==
    /\ calc' = [op |-> "record", bits |-> 0, input |-> str_len,
                output |-> Chunk_size_of(
                    Arena_slow_chunk_for(Heap, DUMMY_CHUNK,
                        Chunk_needed_bytes_for_string(str_len), ok)),
                tag |-> Arena_slow_chunk_for(Heap, DUMMY_CHUNK,
                            Chunk_needed_bytes_for_string(str_len), ok).tag,
                before |-> <<>>]
    /\ UNCHANGED <<buckets, locks, mem, chunks, brk, hashMult, pc, arg, slot,
                   first, last>>

Lengths == (0 .. SizeSweep) \cup (USIZE_MAX - SizeSweep .. USIZE_MAX)

NextSizes ==
    \/ \E cur_capacity \in Capacities : \E checks \in BOOLEAN :
          GrowSize(cur_capacity, checks)
    \/ \E str_len \in Lengths : \E ok \in BOOLEAN : RecordSize(str_len, ok)

SpecSizes == Init /\ [][NextSizes]_vars

(***************************************************************************)
(* One repository and a single caller, on the strings that fill one index  *)
(* past its initial capacity.                                              *)
(***************************************************************************)
NextIndex == \E i \in 1 .. IndexPoolSize : Intern(1, i)

SpecIndex == Init /\ [][NextIndex]_vars

(***************************************************************************)
(* Repository::allocated_memory called by one more thread while the        *)
(* threads intern: self.buckets.iter().map(..).sum() takes the buckets in  *)
(* order and for each locks it, reads the bytes of its index and arena,    *)
(* and drops the guard at the end of the closure.  calc holds the call:    *)
(* input is the bucket it is at, output the sum so far, and before the     *)
(* bytes the repository had allocated when the call began.                 *)
(***************************************************************************)
\* The thread that calls allocated_memory.
Observer == NumThreads + 1

\* The bytes bucket bk holds by the allocator's account: its table and the
\* chunks chained from the head of its arena.
BucketBytes(ch, bk) ==
    (IF Len(bk.entries.data) = 1 THEN 0 ELSE SIZE_OF_SLOT * Len(bk.entries.data))
    + SumOver(Arena_chain(ch, bk.arena, Cardinality(DOMAIN ch)),
              [c \in DOMAIN ch |-> ch[c].size])

\* The bytes the buckets bs of repository 1 hold.
BytesOf(bs) == SumOver(bs, [b \in Buckets |-> BucketBytes(chunks, buckets[1][b])])

Measure_call ==
    /\ calc.op = "none"
    /\ calc' = [op |-> "sum", bits |-> 0, input |-> 0, output |-> 0,
                tag |-> "next", before |-> <<BytesOf(Buckets)>>]
    /\ UNCHANGED <<buckets, locks, mem, chunks, brk, hashMult, pc, arg, slot,
                   first, last>>

\* let b = b.0.lock()
Measure_lock ==
    /\ calc.op = "sum"
    /\ calc.tag = "next"
    /\ Mutex_is_free(1, calc.input)
    /\ locks' = [locks EXCEPT ![1][calc.input] = Observer]
    /\ calc' = [calc EXCEPT !.tag = "locked"]
    /\ UNCHANGED <<buckets, mem, chunks, brk, hashMult, pc, arg, slot, first, last>>

\* A closure that reads the bucket and keeps the guard.
Measure_read_keeps_guard ==
    /\ calc.op = "sum"
    /\ calc.tag = "locked"
    /\ calc' = [calc EXCEPT
                  !.output = @ + Bucket_allocated_memory(Heap, buckets[1][calc.input]),
                  !.input = @ + 1,
                  !.tag = IF calc.input + 1 = BUCKET_NUMBER THEN "done" ELSE "next"]
    /\ UNCHANGED <<buckets, locks, mem, chunks, brk, hashMult, pc, arg, slot,
                   first, last>>

\* b.entries.allocated_memory() + b.arena.allocated_memory(), the guard
\* dropped, the value added to the sum.
Measure_read ==
    /\ calc.op = "sum"
    /\ calc.tag = "locked"
    /\ locks' = [locks EXCEPT ![1][calc.input] = 0]
    /\ calc' = [calc EXCEPT
                  !.output = @ + Bucket_allocated_memory(Heap, buckets[1][calc.input]),
                  !.input = @ + 1,
                  !.tag = IF calc.input + 1 = BUCKET_NUMBER THEN "done" ELSE "next"]
    /\ UNCHANGED <<buckets, mem, chunks, brk, hashMult, pc, arg, slot, first, last>>

\* The caller has the sum; it may call again.
Measure_return ==
    /\ calc.op = "sum"
    /\ calc.tag = "done"
    /\ calc' = NoCalc
    /\ UNCHANGED <<buckets, locks, mem, chunks, brk, hashMult, pc, arg, slot,
                   first, last>>

\* The strings the threads of SpecSnap intern: the last two of the pool,
\* whose chunks differ in size.
SnapPool == {PoolSize - 1, PoolSize}

NextSnap ==
    \/ \E t \in 1 .. SnapThreads :
          \/ \E i \in SnapPool : Call(t, i)
          \/ Lock(t)
          \/ Lookup(t)
          \/ Insert(t)
    \/ Measure_call
    \/ Measure_lock
    \/ Measure_read
    \/ Measure_return

SpecSnap == Init /\ [][NextSnap]_vars

\* The scheduling: a thread inside a call goes on running, and a thread
\* that waits for a Mutex gets it if the Mutex is free again and again
\* (parking_lot's Mutex is eventually fair: an unlock hands the lock to the
\* longest waiter at the latest after a bounded time).  No thread has to
\* begin a call.
\* The conditions on the steps of intern are WF_vars and SF_vars written
\* out, with ENABLED as the state predicate it amounts to: Lookup(t) and
\* Insert(t) can be taken exactly when the thread is at them, whatever the
\* bucket holds, and Lock(t) when the thread is at it and the Mutex is free.
\* SF_vars(Lock(t)):
Lock_fair(t) ==
    \/ <>[](~(pc[t] = "hashed" /\ Mutex_is_free(1, BucketOf(arg[t]))))
    \/ []<><<Lock(t)>>_vars

\* WF_vars(Lookup(t)):
Lookup_fair(t) == []<>(pc[t] # "locked") \/ []<><<Lookup(t)>>_vars

\* WF_vars(Insert(t)):
Insert_fair(t) == []<>(pc[t] # "probed") \/ []<><<Insert(t)>>_vars

Fairness ==
    /\ \A t \in 1 .. SnapThreads : Lock_fair(t) /\ Lookup_fair(t) /\ Insert_fair(t)
    /\ SF_vars(Measure_lock)
    /\ WF_vars(Measure_read)

SpecLive == SpecSnap /\ Fairness

(***************************************************************************)
(* The single caller of Spec, who may drop the repository: the drop glue   *)
(* of Repository drops the buckets in order, and each bucket its arena     *)
(* (Drop for Arena, src/src/arena.rs) and its index.  No call follows.     *)
(***************************************************************************)
\* The result of a drop: the chunks still allocated, the low addresses
\* passed to dealloc in order, and "ok" or what went wrong.
Drop_result(tag, ch, freed) == [tag |-> tag, ch |-> ch, freed |-> freed]

\* Drop for Arena from chunk on.  A chunk that is no live allocation (freed
\* before, or never allocated) makes the loop read freed memory.
RECURSIVE Arena_drop(_, _, _)
Arena_drop(ch, chunk, freed) ==
    IF Chunk_is_dummy(chunk) THEN Drop_result("ok", ch, freed)
    ELSE IF chunk \notin DOMAIN ch THEN Drop_result("use after free", ch, freed)
    ELSE Arena_drop([x \in DOMAIN ch \ {chunk} |-> ch[x]], ch[chunk].prev,
                    Append(freed, ch[chunk].low))

\* The drop of the buckets from b on, r being the result so far.
RECURSIVE Repository_drop(_, _, _)
Repository_drop(repo, b, r) ==
    IF b = BUCKET_NUMBER \/ r.tag # "ok" THEN r
    ELSE Repository_drop(repo, b + 1, Arena_drop(r.ch, repo[b].arena, r.freed))

\* The chunks of a heap as the allocator knows them: low address and size.
Allocations(ch) ==
    {[low |-> ch[c].low, size |-> ch[c].size] : c \in DOMAIN ch \ {DUMMY_CHUNK}}

\* The state after drop(repository) gave r.
Dropped(r) ==
    /\ chunks' = r.ch
    /\ calc' = [op |-> "drop", bits |-> 0, input |-> 0, output |-> r.freed,
                tag |-> r.tag, before |-> Allocations(chunks)]
    /\ UNCHANGED <<buckets, locks, mem, brk, hashMult, pc, arg, slot, first, last>>

Drop ==
    /\ calc.op = "none"
    /\ \A t \in Threads : pc[t] = "idle"
    /\ Dropped(Repository_drop(buckets[1], 0, Drop_result("ok", chunks, <<>>)))

InternLive(i) == calc.op = "none" /\ Intern(1, i)

NextDrop == (\E i \in 1 .. PoolSize : InternLive(i)) \/ Drop

SpecDrop == Init /\ [][NextDrop]_vars

(***************************************************************************)
(* Properties.                                                             *)
(***************************************************************************)
HeapNext == [mem |-> mem', ch |-> chunks', brk |-> brk']

\* The strings interned so far in repository st.
Interned(st) == {i \in 1 .. PoolSize : first[st][i] # 0}

\* Whether the last step was a call that returned a handle.
LastReturned == last.op \in {"hit", "miss"}

\* All records of repository st.
AllRecords(st) == UNION {Arena_records(Heap, buckets[st][b].arena) : b \in Buckets}

\* C1 (idempotence): a call intern(s) that follows an earlier intern(s) on
\* the same repository, whatever was interned in between, returns the handle
\* the earlier call returned, whose hash and content are those of s, and
\* creates no record: the repository holds as many records as distinct
\* strings were interned.
C1_Idempotence ==
    /\ (LastReturned /\ last.prior # 0) =>
          /\ last.h = last.prior
          /\ last.op = "hit"
          /\ Entry_hash(mem, last.h) = HashOf(last.i)
          /\ Entry_as_str(mem, last.h) = StringOf(last.i)
    /\ \A st \in Stores :
          Repository_records(Heap, buckets[st]) = Cardinality(Interned(st))

\* A second intern of a string returned, three strings being interned.
C1_Witness ==
    /\ last.op = "hit"
    /\ last.prior # 0
    /\ Cardinality(Interned(1)) >= 3

\* C3 (distinctness): two different strings interned in one repository have
\* different handles with different contents, equal hashes or not, and a hit
\* is never a record whose content differs from the string asked for.
C3_Distinctness ==
    /\ \A st \in Stores : \A i, j \in Interned(st) :
          i # j =>
             /\ first[st][i] # first[st][j]
             /\ Entry_as_str(mem, first[st][i]) # Entry_as_str(mem, first[st][j])
    /\ LastReturned => Entry_as_str(mem, last.h) = StringOf(last.i)

\* Two strings of one hash and one length are interned, in one bucket, the
\* second just now.
C3_Witness ==
    /\ last.op = "miss"
    /\ \E i, j \in Interned(1) :
          /\ i # j
          /\ j = last.i
          /\ HashOf(i) = HashOf(j)
          /\ LenOf(i) = LenOf(j)

\* C4 (growth preserves membership): whatever growths the index of a bucket
\* went through, the probe for each string interned before finds the handle
\* its first intern returned, and the record still has the string's hash and
\* content; a call that finds a string creates no record.
C4_GrowthPreservesMembership ==
    /\ \A st \in Stores : \A i \in Interned(st) :
          LET e == buckets[st][BucketOf(i)].entries
              p == Entries_probe(mem, e, BitAnd(e.mask, HashOf(i)), 0,
                                 HashOf(i), StringOf(i))
          IN  /\ p.kind = "hit"
              /\ p.entry = first[st][i]
              /\ Entry_hash(mem, p.entry) = HashOf(i)
              /\ Entry_as_str(mem, p.entry) = StringOf(i)
    /\ \A st \in Stores : \A b \in Buckets :
          Cardinality(Arena_records(Heap, buckets[st][b].arena))
            = Cardinality({i \in Interned(st) : BucketOf(i) = b})

\* A string interned before the index grew past its initial capacity was
\* interned again after the growth and hit.
C4_Witness ==
    /\ last.op = "hit"
    /\ last.prior # 0
    /\ Entries_capacity(buckets[1][BucketOf(last.i)].entries) > ENTRIES_INITIAL_CAPACITY
    /\ Cardinality({i \in Interned(1) : BucketOf(i) = BucketOf(last.i)})
         > Entries_max_item_count(ENTRIES_INITIAL_CAPACITY)

\* C5 (round trip): the handle intern(s) returned has the content s byte for
\* byte, the length of s and the hash the repository computed for s, in every
\* later state too.
C5_RoundTrip ==
    \A st \in Stores : \A i \in Interned(st) :
        /\ Entry_as_str(mem, first[st][i]) = StringOf(i)
        /\ Len(Entry_as_str(mem, first[st][i])) = LenOf(i)
        /\ ReadWord(mem, first[st][i]) = LenOf(i)
        /\ Entry_hash(mem, first[st][i]) = HashOf(i)

\* The empty string, a string of length 1, the string that exactly fills a
\* default chunk and the one that needs an oversized chunk are all interned.
C5_Witness ==
    /\ {1, 2, 4, 5} \subseteq Interned(1)
    /\ LenOf(1) = 0
    /\ LenOf(2) % ALLOC_ALIGNMENT # 0
    /\ ~Chunk_is_exceed_default_capacity(Chunk_needed_bytes_for_string(LenOf(4)))
    /\ Chunk_is_exceed_default_capacity(Chunk_needed_bytes_for_string(LenOf(5)))

\* C2 (concurrent deduplication): in every interleaving of threads that
\* intern strings of one pool into one repository, no two records have the
\* same content, the number of records is the number of distinct strings
\* interned, and every call for a string returns the handle the first call
\* for it returned, whose content is the string.
C2_ConcurrentDedup ==
    /\ \A r1, r2 \in AllRecords(1) :
          Entry_as_str(mem, r1) = Entry_as_str(mem, r2) => r1 = r2
    /\ Cardinality(AllRecords(1)) = Cardinality(Interned(1))
    /\ Repository_records(Heap, buckets[1]) = Cardinality(Interned(1))
    /\ LastReturned =>
          /\ last.h = first[1][last.i]
          /\ Entry_as_str(mem, last.h) = StringOf(last.i)
    /\ (LastReturned /\ last.prior # 0) => last.op = "hit"

\* A thread has just created the record of a string while another thread is
\* inside a call for the same string.
C2_Witness ==
    /\ last.op = "miss"
    /\ \E t \in Threads : pc[t] = "hashed" /\ arg[t] = last.i
    /\ Cardinality(Interned(1)) >= 2

\* C6 (cross-store inequality): the handles of one content in two
\* repositories are unequal and have equal contents; no handle of one
\* repository equals a handle of the other; within one repository two
\* handles are equal exactly when their contents are.
C6_CrossStoreInequality ==
    /\ \A i \in Interned(1) \cap Interned(2) :
          /\ first[1][i] # first[2][i]
          /\ Entry_as_str(mem, first[1][i]) = Entry_as_str(mem, first[2][i])
    /\ \A i \in Interned(1) : \A j \in Interned(2) : first[1][i] # first[2][j]
    /\ \A st \in Stores : \A i, j \in Interned(st) :
          (first[st][i] = first[st][j])
             <=> (Entry_as_str(mem, first[st][i]) = Entry_as_str(mem, first[st][j]))

\* One content is interned in both repositories, and each holds two strings.
C6_Witness ==
    /\ Interned(1) \cap Interned(2) # {}
    /\ Cardinality(Interned(1)) >= 2
    /\ Cardinality(Interned(2)) >= 2

\* Repository::allocated_memory of repository st, before and after a step.
AllocatedMemory(st) == Repository_allocated_memory(Heap, buckets[st])

AllocatedMemoryNext(st) == Repository_allocated_memory(HeapNext, buckets'[st])

\* C7 (allocation only on a genuine miss): a call that hits allocates no
\* chunk and no table: allocated_memory(), the chunks and the capacity of
\* the index after the call are those before it, growth_left being 0 or not.
C7_HitAllocatesNothing ==
    [][last'.op = "hit" =>
          /\ AllocatedMemoryNext(last'.st) = AllocatedMemory(last'.st)
          /\ chunks' = chunks
          /\ brk' = brk
          /\ \A b \in Buckets :
                Entries_capacity(buckets'[last'.st][b].entries)
                  = Entries_capacity(buckets[last'.st][b].entries)]_vars

\* C8 (failure atomicity): a call that fails fatally leaves the index, the
\* chunk chain, the cursors and the memory as they were before the call.
C8_FailureAtomicity ==
    [][last'.op \notin {"hit", "miss", "none"} =>
          /\ buckets' = buckets
          /\ mem' = mem
          /\ chunks' = chunks
          /\ brk' = brk]_vars

\* C9 (lazy shards): a new repository has allocated_memory() 0, and a
\* bucket no string routed to which has been interned contributes 0 bytes:
\* its index and its arena are those of the construction.
C9_LazyShards ==
    \A st \in Stores :
        /\ Interned(st) = {} => AllocatedMemory(st) = 0
        /\ \A b \in Buckets :
              (\A i \in Interned(st) : BucketOf(i) # b) =>
                  /\ Bucket_allocated_memory(Heap, buckets[st][b]) = 0
                  /\ buckets[st][b] = Bucket_default

\* The bytes of the index of a bucket, from the table it holds.
IndexBytes(e) == IF Len(e.data) = 1 THEN 0 ELSE SIZE_OF_SLOT * Len(e.data)

\* A string whose record fits a chunk of the default capacity.
IsShort(i) ==
    ~Chunk_is_exceed_default_capacity(Chunk_needed_bytes_for_string(LenOf(i)))

\* Repository st holds exactly strings that are short and routed to
\* different buckets, and nothing has touched its other buckets.
OnePerBucket(st) ==
    /\ \A i \in Interned(st) : IsShort(i)
    /\ \A i, j \in Interned(st) : i # j => BucketOf(i) # BucketOf(j)
    /\ \A b \in Buckets :
          (\A i \in Interned(st) : BucketOf(i) # b) => buckets[st][b] = Bucket_default

\* C10 (allocated_memory): with no call running, allocated_memory() over the
\* repositories is the sum of slot size x capacity over the allocated
\* indexes plus the sizes of all chunks allocated; and a repository that
\* holds k short strings in k different buckets and nothing else reports
\* k x (default chunk size + slot size x initial capacity).
C10_AllocatedMemory ==
    /\ SumOver(Stores, [st \in Stores |-> AllocatedMemory(st)])
         = SumOver(Stores \X Buckets,
                   [sb \in Stores \X Buckets |->
                       IndexBytes(buckets[sb[1]][sb[2]].entries)])
           + SumOver(DOMAIN chunks \ {DUMMY_CHUNK},
                     [c \in DOMAIN chunks \ {DUMMY_CHUNK} |-> chunks[c].size])
    /\ \A st \in Stores :
          OnePerBucket(st) =>
             AllocatedMemory(st)
               = Cardinality(Interned(st))
                   * (CHUNK_DEFAULT_CAPACITY + SIZE_OF_SLOT * ENTRIES_INITIAL_CAPACITY)

\* Three short strings have been interned in three buckets of a new
\* repository, the last just now.
C10_Witness ==
    /\ OnePerBucket(1)
    /\ Cardinality(Interned(1)) >= 3
    /\ last.op = "miss"

\* The positions of the occupied slots of a table.
Occupied(e) == {p \in 0 .. e.mask : e.data[p + 1] # 0}

\* Whether capacity is ENTRIES_INITIAL_CAPACITY times a power of two.
RECURSIVE IsGrownCapacity(_)
IsGrownCapacity(capacity) ==
    \/ capacity = ENTRIES_INITIAL_CAPACITY
    \/ /\ capacity > ENTRIES_INITIAL_CAPACITY
       /\ capacity % 2 = 0
       /\ IsGrownCapacity(capacity \div 2)

\* C11 (index invariant): the capacity of every index is 1 or the initial
\* capacity times a power of two, its table has that many slots, at most 3/4
\* of them are occupied, and growth_left is capacity / 4 * 3 less the number
\* of occupied slots.
C11_IndexInvariant ==
    \A st \in Stores : \A b \in Buckets :
        LET e == buckets[st][b].entries
        IN  /\ Entries_capacity(e) = 1 \/ IsGrownCapacity(Entries_capacity(e))
            /\ Len(e.data) = Entries_capacity(e)
            /\ 4 * Cardinality(Occupied(e)) <= 3 * Entries_capacity(e)
            /\ e.growth_left
                 = (Entries_capacity(e) \div 4) * 3 - Cardinality(Occupied(e))

\* An index that grew past its initial capacity holds more strings than the
\* initial capacity admits, and another index is still in its empty state.
C11_Witness ==
    \E b, c \in Buckets :
        /\ Entries_capacity(buckets[1][b].entries) = 2 * ENTRIES_INITIAL_CAPACITY
        /\ Cardinality(Occupied(buckets[1][b].entries))
             > Entries_max_item_count(ENTRIES_INITIAL_CAPACITY)
        /\ Entries_capacity(buckets[1][c].entries) = 1

\* growth_left as grow left it in a step that took the table e to e2: what
\* the step left, plus the insertion that followed the growth if one did.
GrowthLeftAfterGrow(e, e2) ==
    e2.growth_left + Cardinality(Occupied(e2)) - Cardinality(Occupied(e))

\* C12 (growth step): a call that changes the capacity c of an index makes
\* it ENTRIES_INITIAL_CAPACITY when c is 1 and 2c otherwise, and grow leaves
\* growth_left at 3/4 of the new capacity less the number of slots occupied
\* before the growth, which is more than 0.
C12_GrowthStep ==
    [][\A st \in Stores : \A b \in Buckets :
          Entries_capacity(buckets'[st][b].entries)
              # Entries_capacity(buckets[st][b].entries) =>
            /\ Entries_capacity(buckets'[st][b].entries)
                 = IF Entries_capacity(buckets[st][b].entries) = 1
                   THEN ENTRIES_INITIAL_CAPACITY
                   ELSE 2 * Entries_capacity(buckets[st][b].entries)
            /\ GrowthLeftAfterGrow(buckets[st][b].entries, buckets'[st][b].entries)
                 = (Entries_capacity(buckets'[st][b].entries) * 3) \div 4
                     - Cardinality(Occupied(buckets[st][b].entries))
            /\ GrowthLeftAfterGrow(buckets[st][b].entries, buckets'[st][b].entries) > 0
      ]_vars

\* The insertion of a string has just grown an index from the initial
\* capacity to twice it.
C12_Witness ==
    /\ last.op = "miss"
    /\ LET e == buckets[1][BucketOf(last.i)].entries
       IN  /\ Entries_capacity(e) = 2 * ENTRIES_INITIAL_CAPACITY
           /\ Cardinality(Occupied(e))
                = Entries_max_item_count(ENTRIES_INITIAL_CAPACITY) + 1

\* The handles a table holds.
Handles(e) == {e.data[p + 1] : p \in Occupied(e)}

\* The handle a step inserted: that of the call it ended, if it missed.
InsertedNext == IF last'.op = "miss" THEN {last'.h} ELSE {}

\* C13 (rehash completeness): when a call grows an index, the number of
\* occupants the rehash counts on, 3/4 of the old capacity, is the number of
\* occupied slots of the old table, and the new table holds the handles of
\* the old one, each in one slot, and besides them only the handle the call
\* inserted after the growth.
C13_RehashCompleteness ==
    [][\A st \in Stores : \A b \in Buckets :
          Entries_capacity(buckets'[st][b].entries)
              # Entries_capacity(buckets[st][b].entries) =>
            /\ Entries_max_item_count(Entries_capacity(buckets[st][b].entries))
                 = Cardinality(Occupied(buckets[st][b].entries))
            /\ Handles(buckets[st][b].entries) \subseteq Handles(buckets'[st][b].entries)
            /\ Handles(buckets'[st][b].entries) \ InsertedNext
                 = Handles(buckets[st][b].entries)
            /\ Cardinality(Occupied(buckets'[st][b].entries))
                 = Cardinality(Handles(buckets[st][b].entries) \cup InsertedNext)
      ]_vars

\* A call has just grown an index that held as many handles as the initial
\* capacity admits, all of one hash, and found its string among them.
C13_Witness ==
    /\ last.op = "hit"
    /\ hashMult = 0
    /\ LET e == buckets[1][BucketOf(last.i)].entries
       IN  /\ Entries_capacity(e) = 2 * ENTRIES_INITIAL_CAPACITY
           /\ Cardinality(Handles(e)) = Entries_max_item_count(ENTRIES_INITIAL_CAPACITY)
           /\ e.growth_left = Entries_max_item_count(Entries_capacity(e))
                                - Cardinality(Handles(e))

\* Whether the probe sequence from pos reaches the slot target over occupied
\* slots only.
RECURSIVE PathOccupied(_, _, _, _)
PathOccupied(e, pos, dist, target) ==
    IF pos = target THEN TRUE
    ELSE IF e.data[pos + 1] = 0 \/ dist > e.mask THEN FALSE
    ELSE PathOccupied(e, Probe_step(pos, dist, e.mask), dist + 1, target)

\* The probe of get_or_insert for the record the handle entry points to.
ProbeFor(m, e, entry) ==
    Entries_probe(m, e, BitAnd(e.mask, Entry_hash(m, entry)), 0,
                  Entry_hash(m, entry), Entry_as_str(m, entry))

\* C14 (probe-path invariant): for every occupied slot of every index, the
\* slots before it on the probe sequence that starts at hash & mask of its
\* record are all occupied, after a rehash too; so the lookup of the record's
\* string ends at that slot with a hit.
C14_ProbePath ==
    \A st \in Stores : \A b \in Buckets :
        \A p \in Occupied(buckets[st][b].entries) :
            LET e == buckets[st][b].entries
            IN  /\ PathOccupied(e, BitAnd(e.mask, Entry_hash(mem, e.data[p + 1])), 0, p)
                /\ ProbeFor(mem, e, e.data[p + 1])
                     = [kind |-> "hit", entry |-> e.data[p + 1], pos |-> p]

\* A rehash has just moved handles of one hash into a table of twice the
\* initial capacity, where they lie on one probe sequence with gaps between
\* their positions.
C14_Witness ==
    /\ hashMult = 0
    /\ last.op \in {"hit", "miss"}
    /\ \E b \in Buckets :
          /\ Entries_capacity(buckets[1][b].entries) = 2 * ENTRIES_INITIAL_CAPACITY
          /\ {0, 1, 3} \subseteq Occupied(buckets[1][b].entries)
          /\ 2 \notin Occupied(buckets[1][b].entries)

\* The slots the first n steps of a probe loop visit, from pos at distance
\* dist.
RECURSIVE ProbeVisits(_, _, _, _)
ProbeVisits(pos, dist, mask, n) ==
    IF n = 0 THEN {}
    ELSE {pos} \cup ProbeVisits(Probe_step(pos, dist, mask), dist + 1, mask, n - 1)

\* The probe sequence of every start position of every capacity up to
\* MaxDoublings doublings visits every slot within capacity steps.
ProbeCoversTable ==
    \A k \in 0 .. MaxDoublings :
        \A start \in 0 .. ENTRIES_INITIAL_CAPACITY * 2 ^ k - 1 :
            ProbeVisits(start, 0, ENTRIES_INITIAL_CAPACITY * 2 ^ k - 1,
                        ENTRIES_INITIAL_CAPACITY * 2 ^ k)
              = 0 .. ENTRIES_INITIAL_CAPACITY * 2 ^ k - 1

\* C15 (probe termination): the probe sequence visits every slot of a table
\* of a power-of-two capacity; so in every index reached the probe loop of
\* get_or_insert ends at a hit or an empty slot for every hash value, the
\* rehash of a full index ends, and no call runs forever, also when all
\* records have one hash.
C15_ProbeTermination ==
    /\ ProbeCoversTable
    /\ last.op # "hang"
    /\ \A st \in Stores : \A b \in Buckets :
          /\ \A hash \in 0 .. 2 ^ HASH_BITS - 1 :
                Entries_probe(mem, buckets[st][b].entries,
                              BitAnd(buckets[st][b].entries.mask, hash), 0,
                              hash, StringOf(1)).kind \in {"hit", "slot"}
          /\ Entries_grow(mem, buckets[st][b].entries, TRUE).tag = "ok"

\* Four records of one hash lie in a table of twice the initial capacity:
\* the probe that inserted the last passed three occupied slots.
C15_Witness ==
    /\ hashMult = 0
    /\ last.op = "miss"
    /\ \E b \in Buckets :
          /\ Entries_capacity(buckets[1][b].entries) = 2 * ENTRIES_INITIAL_CAPACITY
          /\ Occupied(buckets[1][b].entries) = {0, 1, 3, 6}
          /\ buckets[1][b].entries.data[7] = last.h

\* C16 (one record per miss): in every bucket the records of the arena are
\* the handles in the slots of the index, no two slots hold one handle, and
\* there are as many records as strings routed to the bucket were interned:
\* a miss made one record, a hit none.
C16_RecordsAreSlots ==
    \A st \in Stores : \A b \in Buckets :
        /\ Arena_records(Heap, buckets[st][b].arena) = Handles(buckets[st][b].entries)
        /\ Cardinality(Handles(buckets[st][b].entries))
             = Cardinality(Occupied(buckets[st][b].entries))
        /\ Handles(buckets[st][b].entries)
             = {first[st][i] : i \in {j \in Interned(st) : BucketOf(j) = b}}

\* A call has just hit in a bucket that holds three records in two chunks.
C16_Witness ==
    /\ last.op = "hit"
    /\ Cardinality(Arena_records(Heap, buckets[1][BucketOf(last.i)].arena)) = 3
    /\ Cardinality(Arena_chain(chunks, buckets[1][BucketOf(last.i)].arena,
                               Cardinality(DOMAIN chunks))) = 2

\* C17 (shard routing): on the 64-bit and on the 32-bit target, the bucket
\* index of every hash is the top BUCKET_MASK_BITS bits of the hash and lies
\* in 0 .. BUCKET_NUMBER - 1, the indexing of the buckets does not fail, and
\* one hash gives one index.
C17_ShardRouting ==
    calc.op = "route" =>
        /\ calc.output = calc.input \div (2 ^ (HASH_BITS - BUCKET_MASK_BITS))
        /\ calc.output \in 0 .. BUCKET_NUMBER - 1
        /\ calc.tag = "ok"
        /\ calc.bits = USIZE_BITS_64 => calc.output = determine_bucket(calc.input)
        /\ (calc.before # <<>> /\ calc.before[1] = calc.input) =>
              calc.before[2] = calc.output

\* The bytes a chunk for a string of str_len bytes takes, as an integer: the
\* record, and for an oversized chunk the header and the rounding.
TrueChunkSize(str_len) ==
    IF str_len + SIZE_OF_USIZE + SIZE_OF_U64 <= CHUNK_DEFAULT_CAPACITY - SIZE_OF_CHUNK
    THEN CHUNK_DEFAULT_CAPACITY
    ELSE ((str_len + SIZE_OF_USIZE + SIZE_OF_U64 + SIZE_OF_CHUNK + ALLOC_ALIGNMENT - 1)
            \div ALLOC_ALIGNMENT) * ALLOC_ALIGNMENT

\* The bytes the table grow makes for a table of cur_capacity slots takes.
TrueTableSize(cur_capacity) ==
    SIZE_OF_SLOT * (IF cur_capacity = 1 THEN ENTRIES_INITIAL_CAPACITY
                    ELSE 2 * cur_capacity)

FreshHeap == [mem |-> <<>>, ch |-> (DUMMY_CHUNK :> DummyChunk), brk |-> HEAP_BASE]

\* The size of the chunk the slow path makes for a string of str_len bytes.
SlowChunkSize(str_len) ==
    IF str_len + SIZE_OF_USIZE + SIZE_OF_U64 <= CHUNK_DEFAULT_CAPACITY - SIZE_OF_CHUNK
    THEN CHUNK_DEFAULT_CAPACITY
    ELSE round_up(str_len + SIZE_OF_USIZE + SIZE_OF_U64 + SIZE_OF_CHUNK, ALLOC_ALIGNMENT)

\* Whether the result r of the slow path is a record of a string of str_len
\* bytes that lies within a new chunk of the size SlowChunkSize(str_len).
SlowPathServed(r, str_len) ==
    /\ r.tag = "ok"
    /\ DOMAIN r.h.ch = {DUMMY_CHUNK, r.head}
    /\ r.h.ch[r.head].size = SlowChunkSize(str_len)
    /\ r.h.ch[r.head].cur = r.ptr - SIZE_OF_U64
    /\ r.h.ch[r.head].low <= r.ptr - SIZE_OF_U64
    /\ r.ptr + SIZE_OF_USIZE + str_len <= r.head
    /\ ReadWord(r.h.mem, r.ptr) = str_len

\* The slow path on a new arena serves every length up to SlowSweep.
SlowPathSweep ==
    \A str_len \in 0 .. SlowSweep :
        SlowPathServed(
            Arena_try_alloc_str_slow_path(FreshHeap, DUMMY_CHUNK, 0,
                                          [k \in 1 .. str_len |-> 97], TRUE),
            str_len)

\* The chunks of the heap other than the dummy chunk.
RealChunks == DOMAIN chunks \ {DUMMY_CHUNK}

\* C19 (the slow path succeeds): no call ends in "internal error"; a call
\* that made a record returns a handle whose bytes are those of the string,
\* the boundary string and the one a byte longer included; every chunk is of
\* the default size or of the size of an oversized string's record plus the
\* header, and its records lie above its low end; and on the arenas of a
\* new repository the slow path serves every string length up to SlowSweep.
C19_SlowPathSucceeds ==
    /\ last.op # "internal error"
    /\ last.op = "miss" => Entry_as_str(mem, last.h) = StringOf(last.i)
    /\ \A c \in RealChunks :
          /\ chunks[c].size \in {SlowChunkSize(LenOf(i)) : i \in 1 .. PoolSize}
          /\ chunks[c].low <= chunks[c].cur
          /\ chunks[c].cur <= c
    /\ last = NoCall => SlowPathSweep

\* Both the boundary string and the one a byte longer were interned, each by
\* the slow path into a chunk of its own, the last call being one of them.
C19_Witness ==
    /\ first[1][4] # 0
    /\ first[1][5] # 0
    /\ last.op = "miss"
    /\ last.i \in {4, 5}
    /\ Cardinality(RealChunks) >= 2
    /\ \E c \in RealChunks : chunks[c].size = SlowChunkSize(BoundaryLen + 1)
                             /\ chunks[c].cur = chunks[c].low

\* The free bytes of chunk c.
FreeBytes(c) == chunks[c].cur - chunks[c].low

\* Whether a chunk of this size is an oversized one.
IsOversized(size) == size > CHUNK_DEFAULT_CAPACITY

\* Whether a record of a string of str_len bytes fits the free bytes of c.
Fits(c, str_len) ==
    /\ chunks[c].cur >= str_len
    /\ ((chunks[c].cur - str_len) \div ALLOC_ALIGNMENT) * ALLOC_ALIGNMENT
          >= chunks[c].low + SIZE_OF_USIZE + SIZE_OF_U64

\* The chunks the step made.
MadeChunks == DOMAIN chunks' \ DOMAIN chunks

\* The chaining of an oversized chunk n made while old was the head of the
\* arena whose head is new after the step.
OversizedChained(old, new, n) ==
    IF ~Chunk_is_dummy(old) /\ FreeBytes(old) >= CHUNK_USABLE_THRESHOLD
    THEN /\ new = old
         /\ chunks'[old] = [chunks[old] EXCEPT !.prev = n]
         /\ chunks'[n].prev = chunks[old].prev
    ELSE /\ new = n
         /\ chunks'[n].prev = old
         /\ chunks'[old] = chunks[old]

\* A record that fits the head old is stored there and no chunk is made.
StoredInHead(old, new) ==
    /\ MadeChunks = {}
    /\ new = old
    /\ chunks'[old].cur = last'.h - SIZE_OF_U64
    /\ chunks'[old].cur < chunks[old].cur
    /\ chunks'[old].low = chunks[old].low
    /\ chunks'[old].prev = chunks[old].prev

\* What C20 says of a call on the arena of bucket b.
ChainingPolicy(b) ==
    /\ \A n \in MadeChunks :
          IsOversized(chunks'[n].size) =>
              OversizedChained(buckets[1][b].arena, buckets'[1][b].arena, n)
    /\ (last'.op = "miss" /\ ~Chunk_is_dummy(buckets[1][b].arena)
          /\ Fits(buckets[1][b].arena, LenOf(last'.i))) =>
              StoredInHead(buckets[1][b].arena, buckets'[1][b].arena)

\* C20 (chaining of an oversized chunk): a call that makes an oversized chunk
\* while the head of the arena has at least CHUNK_USABLE_THRESHOLD free bytes
\* leaves that head the head, with the new chunk as its predecessor and the
\* head's old predecessor behind the new chunk; when the head has fewer free
\* bytes or is the dummy chunk, the new chunk becomes the head and the old
\* head its predecessor; and a call whose record fits the free bytes of the
\* head, a head kept in this way included, stores it there and makes no chunk.
C20_OversizedChaining == [][ChainingPolicy(BucketOf(last'.i))]_vars

\* The head of bucket b was kept when an oversized chunk was made (its
\* predecessor is an oversized chunk made after it), and the last call, a
\* miss on a short string, stored its record in that head: the arena still
\* has the two chunks, and the head's free bytes are now below the threshold.
KeptHeadServed(b) ==
    /\ ~Chunk_is_dummy(buckets[1][b].arena)
    /\ ~IsOversized(chunks[buckets[1][b].arena].size)
    /\ chunks[buckets[1][b].arena].prev \in RealChunks
    /\ chunks[buckets[1][b].arena].prev > buckets[1][b].arena
    /\ IsOversized(chunks[chunks[buckets[1][b].arena].prev].size)
    /\ chunks[buckets[1][b].arena].cur = last.h - SIZE_OF_U64
    /\ FreeBytes(buckets[1][b].arena) < CHUNK_USABLE_THRESHOLD

C20_Witness ==
    /\ last.op = "miss"
    /\ last.i \in {1, 2, 3}
    /\ first[1][5] # 0
    /\ Cardinality(RealChunks) = 2
    /\ KeptHeadServed(BucketOf(last.i))

\* Whether the record at ptr lies in chunk c after the step.
ServedBy(c, ptr) ==
    /\ c \in DOMAIN chunks' \ {DUMMY_CHUNK}
    /\ chunks'[c].low <= ptr - SIZE_OF_U64
    /\ ptr < c

\* Whether the head old can serve a string of str_len bytes.
HeadCanServe(old, str_len) == ~Chunk_is_dummy(old) /\ Fits(old, str_len)

\* What C21 says of a call that made a record in the arena of bucket b.
HeadServes(b) ==
    /\ ~HeadCanServe(buckets[1][b].arena, LenOf(last'.i)) =>
          /\ MadeChunks # {}
          /\ buckets'[1][b].arena \in MadeChunks
    /\ \/ Chunk_is_dummy(buckets'[1][b].arena)
       \/ ServedBy(buckets'[1][b].arena, last'.h)

\* C21 (the head of the arena): when the head chunk cannot serve a request,
\* a chunk is made and becomes the head, and after every alloc_str the head
\* is the dummy chunk or the chunk that holds the record just made.
C21_ArenaHead == [][last'.op = "miss" => HeadServes(BucketOf(last'.i))]_vars

\* The prev chain from chunk as a sequence, the dummy chunk left out; the
\* walk stops after fuel chunks or at an address that is no chunk.
RECURSIVE ChainSeq(_, _, _)
ChainSeq(ch, chunk, fuel) ==
    IF Chunk_is_dummy(chunk) \/ fuel = 0 \/ chunk \notin DOMAIN ch THEN <<>>
    ELSE <<chunk>> \o ChainSeq(ch, ch[chunk].prev, fuel - 1)

\* The chain of bucket b of repository 1.
ChainOf(b) == ChainSeq(chunks, buckets[1][b].arena, Cardinality(DOMAIN chunks))

\* The elements of a sequence.
Range(s) == {s[k] : k \in DOMAIN s}

\* No element occurs twice.
NoRepeat(s) == Cardinality(Range(s)) = Len(s)

\* The chain of bucket b ends at the dummy chunk, passes no chunk twice, and
\* Arena::allocated_memory is the sum of the sizes of its chunks.
ChainIntact(b) ==
    /\ Arena_allocated_memory(Heap, buckets[1][b].arena) # -1
    /\ NoRepeat(ChainOf(b))
    /\ DUMMY_CHUNK \notin Range(ChainOf(b))
    /\ Arena_allocated_memory(Heap, buckets[1][b].arena)
          = SumOver(Range(ChainOf(b)), [c \in Range(ChainOf(b)) |-> chunks[c].size])

\* C22 (integrity of the chunk chains): while the repository lives, the
\* chain of every arena ends at the dummy chunk and passes no chunk twice,
\* every chunk allocated so far lies on the chain of exactly one arena, and
\* Arena::allocated_memory is the sum of the sizes of the arena's chunks;
\* the drop of the repository ends, passes to dealloc every chunk allocated
\* exactly once, and leaves the dummy chunk alone.
C22_ChainIntegrity ==
    /\ calc.op = "none" =>
          /\ \A b \in Buckets : ChainIntact(b)
          /\ \A b1, b2 \in Buckets :
                b1 # b2 => Range(ChainOf(b1)) \cap Range(ChainOf(b2)) = {}
          /\ UNION {Range(ChainOf(b)) : b \in Buckets} = RealChunks
    /\ calc.op = "drop" =>
          /\ calc.tag = "ok"
          /\ NoRepeat(calc.output)
          /\ Range(calc.output) = {a.low : a \in calc.before}
          /\ Len(calc.output) = Cardinality(calc.before)
          /\ DummyChunk.low \notin Range(calc.output)
          /\ chunks = (DUMMY_CHUNK :> DummyChunk)

\* The repository was dropped with one arena of three chunks or more, one of
\* them an oversized chunk chained behind a head that was kept (it is freed
\* after a chunk of a lower address).
C22_Witness ==
    /\ calc.op = "drop"
    /\ hashMult <= 1
    /\ Len(calc.output) >= 3
    /\ \E k \in 1 .. Len(calc.output) - 1 : calc.output[k] < calc.output[k + 1]
    /\ \E a \in calc.before : IsOversized(a.size)

\* The first address of the record of handle h, and the address after the
\* last byte of its string of str_len bytes.
RecordLow(h) == h - SIZE_OF_U64

RecordEnd(h, str_len) == h + SIZE_OF_USIZE + str_len

\* The handles returned so far, after the step, lie each between the cursor
\* and the header of one chunk, and the records of two of them share no byte.
RecordsApartNext ==
    /\ \A i \in 1 .. PoolSize :
          first'[1][i] # 0 =>
              \E c \in DOMAIN chunks' \ {DUMMY_CHUNK} :
                  /\ chunks'[c].cur <= RecordLow(first'[1][i])
                  /\ RecordEnd(first'[1][i], LenOf(i)) <= c
    /\ \A i, j \in 1 .. PoolSize :
          (i # j /\ first'[1][i] # 0 /\ first'[1][j] # 0) =>
              \/ RecordEnd(first'[1][i], LenOf(i)) <= RecordLow(first'[1][j])
              \/ RecordEnd(first'[1][j], LenOf(j)) <= RecordLow(first'[1][i])

\* The chunks after the step share no byte.
ChunksApartNext ==
    \A c, d \in DOMAIN chunks' \ {DUMMY_CHUNK} :
        c # d => \/ chunks'[c].low + chunks'[c].size <= chunks'[d].low
                 \/ chunks'[d].low + chunks'[d].size <= chunks'[c].low

\* The step keeps every chunk, its place and its size, and moves its cursor
\* down if at all, not below low.
CursorsDescend ==
    \A c \in RealChunks :
        /\ c \in DOMAIN chunks'
        /\ chunks'[c].low = chunks[c].low
        /\ chunks'[c].size = chunks[c].size
        /\ c = chunks[c].low + chunks[c].size - SIZE_OF_CHUNK
        /\ chunks'[c].cur <= chunks[c].cur
        /\ chunks'[c].low <= chunks'[c].cur
        /\ chunks[c].cur <= c

\* The step changes no byte written before it (a step that leaves all of
\* mem as it was changes none), and every handle returned before it is the
\* handle of its string still.
RecordsKept ==
    /\ \/ mem' = mem
       \/ \A a \in DOMAIN mem : a \in DOMAIN mem' /\ mem'[a] = mem[a]
    /\ \A i \in Interned(1) : first'[1][i] = first[1][i]

\* The bytes of the record of handle h of a string of str_len bytes: hash,
\* length and characters.
RecordBytes(h, str_len) == RecordLow(h) .. RecordEnd(h, str_len) - 1

\* A call that made a record wrote the bytes of that record, none of them
\* written before, and the characters are those of the string; any other
\* call wrote nothing.
RecordMade ==
    IF last'.op = "miss"
    THEN /\ DOMAIN mem' \ DOMAIN mem = RecordBytes(last'.h, LenOf(last'.i))
         /\ \A k \in 1 .. LenOf(last'.i) :
               mem'[last'.h + SIZE_OF_USIZE + k - 1] = StringOf(last'.i)[k]
    ELSE DOMAIN mem' = DOMAIN mem

\* C23 (records do not change): in every step the cursor of every chunk
\* moves down or stays and remains between low and the header; the records
\* lie between the cursor and the header of their chunk and share no byte
\* with one another, and the chunks share no byte; and no call, whether it
\* makes a record, a chunk or a larger index, changes a byte written before
\* or the address of a record made before: a call that makes a record
\* writes the bytes of that record, none of them written before, and no
\* other byte.
C23_RecordImmutability ==
    [][CursorsDescend /\ RecordsKept /\ RecordMade /\ RecordsApartNext
         /\ ChunksApartNext]_vars

\* Two strings have their records in one chunk, an oversized chunk was made
\* and an index has grown, the last call having made a record.
C23_Witness ==
    /\ last.op = "miss"
    /\ \E c \in RealChunks : IsOversized(chunks[c].size)
    /\ \E b \in Buckets : Entries_capacity(buckets[1][b].entries) > ENTRIES_INITIAL_CAPACITY
    /\ \E c \in RealChunks : \E i, j \in Interned(1) :
          /\ i # j
          /\ chunks[c].cur <= RecordLow(first[1][i]) /\ first[1][i] < c
          /\ chunks[c].cur <= RecordLow(first[1][j]) /\ first[1][j] < c

\* Arena::allocated_memory of the arena of bucket b after the step.
ArenaMemoryNext(b) == Arena_allocated_memory(HeapNext, buckets'[1][b].arena)

\* The fast path served the call from the head old of bucket b: the record
\* lies in old, whose cursor is now the start of the record; nothing else of
\* any chunk changed, no chunk was made, and allocated_memory is as before.
FastPathServed(b, old) ==
    /\ ServedBy(old, last'.h)
    /\ buckets'[1][b].arena = old
    /\ chunks' = [chunks EXCEPT ![old].cur = RecordLow(last'.h)]
    /\ chunks'[old].cur < chunks[old].cur
    /\ brk' = brk
    /\ ArenaMemoryNext(b) = Arena_allocated_memory(Heap, old)

\* The dummy chunk is as it was made, no byte of it was written, and the
\* record of the call does not lie in it.
DummyUntouched ==
    /\ chunks'[DUMMY_CHUNK] = DummyChunk
    /\ \A a \in DUMMY_CHUNK .. DUMMY_CHUNK + SIZE_OF_CHUNK - 1 : a \notin DOMAIN mem'
    /\ last'.op = "miss" =>
          RecordEnd(last'.h, LenOf(last'.i)) <= DUMMY_CHUNK - SIZE_OF_CHUNK
          \/ RecordLow(last'.h) >= DUMMY_CHUNK + SIZE_OF_CHUNK

\* What C24 says of a call on bucket b.
FastPath(b) ==
    /\ (last'.op = "miss" /\ HeadCanServe(buckets[1][b].arena, LenOf(last'.i))) =>
          FastPathServed(b, buckets[1][b].arena)
    /\ (last'.op = "miss" /\ Chunk_is_dummy(buckets[1][b].arena)) =>
          /\ MadeChunks # {}
          /\ ~Chunk_is_dummy(buckets'[1][b].arena)
    /\ DummyUntouched

\* C24 (the fast path allocates nothing): a call that makes a record while
\* the head chunk has room for it (the characters rounded down to the
\* alignment, the length and the hash not below low) stores the record in
\* the head, makes no chunk, leaves every chain and Arena::allocated_memory
\* as they were and only lowers the cursor of the head; the dummy chunk
\* serves no call and is never written.
C24_FastPath == [][FastPath(BucketOf(last'.i))]_vars

\* The last call stored a record that fits the free bytes of the head
\* exactly: the only chunk of the heap is full and holds three records.
C24_Witness ==
    /\ last.op = "miss"
    /\ Cardinality(RealChunks) = 1
    /\ Cardinality(Interned(1)) = 3
    /\ \E c \in RealChunks :
          /\ buckets[1][BucketOf(last.i)].arena = c
          /\ chunks[c].cur = RecordLow(last.h)
          /\ chunks[c].cur = chunks[c].low

\* Whether the record of handle h lies in one of the chunks cs.
HeldBy(cs, h) == \E c \in cs : chunks[c].low <= RecordLow(h) /\ h < c

\* The step left every bucket but b alone: its index (table, growth_left,
\* mask) and the head of its arena, and the header of every chunk that is
\* not on the chain of b, so that the chains of the other buckets are as
\* they were.
OtherShardsUnchanged(b) ==
    /\ \A b2 \in Buckets \ {b} : buckets'[1][b2] = buckets[1][b2]
    /\ buckets'[2] = buckets[2]
    /\ \A c \in DOMAIN chunks \ Range(ChainOf(b)) :
          c \in DOMAIN chunks' /\ chunks'[c] = chunks[c]

\* The handle returned for string i, routed to bucket b, is in the index of
\* b and its record in a chunk of the arena of b.
OwnedBy(b, i) ==
    /\ first[1][i] \in Handles(buckets[1][b].entries)
    /\ HeldBy(Range(ChainOf(b)), first[1][i])

\* Every handle returned is owned by the bucket its string is routed to, an
\* index holds no handle but those, and two buckets share no chunk and no
\* handle.
ShardsApart ==
    /\ \A i \in Interned(1) : OwnedBy(BucketOf(i), i)
    /\ \A b \in Buckets :
          Handles(buckets[1][b].entries) \subseteq {first[1][i] : i \in Interned(1)}
    /\ \A b1, b2 \in Buckets :
          b1 < b2 =>
             /\ Range(ChainOf(b1)) \cap Range(ChainOf(b2)) = {}
             /\ Handles(buckets[1][b1].entries) \cap Handles(buckets[1][b2].entries) = {}

\* C25 (shard isolation): a call changes only the bucket the hash of its
\* string selects: the index (slots, capacity, growth_left) and the arena
\* (head, chain, cursors) of every other bucket are after the call what they
\* were before; and at all times no chunk, record or slot belongs to two
\* buckets: the handles of an index are records in the chunks of the same
\* bucket's arena, of strings routed to that bucket.
C25_ShardIsolation ==
    /\ []ShardsApart
    /\ [][OtherShardsUnchanged(BucketOf(last'.i))]_vars

\* Strings were interned into three buckets or more, one of which holds two
\* strings, the last call having made a record.
C25_Witness ==
    /\ last.op = "miss"
    /\ Cardinality({b \in Buckets : buckets[1][b] # Bucket_default}) >= 3
    /\ \E b \in Buckets : Cardinality(Handles(buckets[1][b].entries)) >= 2
    /\ \E b \in Buckets \ {BucketOf(last.i)} : buckets[1][b].arena # DUMMY_CHUNK

\* The buckets a call of allocated_memory has read, and those it has not.
BucketsRead == {b \in Buckets : b < calc.input}

BucketsAhead == {b \in Buckets : b >= calc.input}

\* The sum of a call of allocated_memory, as far as it got, is at most what
\* the buckets it has read hold now, and with what the buckets ahead of it
\* hold now it is at least what the repository held when the call began.
SumWithinBounds ==
    calc.op = "sum" =>
        /\ calc.output <= BytesOf(BucketsRead)
        /\ calc.before[1] <= calc.output + BytesOf(BucketsAhead)
        /\ calc.tag = "done" =>
              /\ calc.before[1] <= calc.output
              /\ calc.output <= BytesOf(Buckets)

\* No step lowers the bytes a bucket holds.
BytesGrow ==
    \A b \in Buckets :
        BucketBytes(chunks, buckets[1][b]) <= BucketBytes(chunks', buckets'[1][b])

\* C26 (bounds of the snapshot): no step lowers the bytes a bucket holds,
\* and the value v a call of allocated_memory returns while other threads
\* intern lies between the bytes the repository held when the call began and
\* the bytes it holds when the call returns.
C26_SnapshotBounds == []SumWithinBounds /\ [][BytesGrow]_vars

\* A call that began on a new repository returns as v the bytes of bucket 1
\* alone, while bucket 0, which it had read as empty, holds a table and a
\* chunk made before the chunk of bucket 1 (its address is the lower): v is
\* above the bytes at the start, below those at the return, and the bytes of
\* the repository at no instant.
C26_Witness ==
    /\ calc.op = "sum"
    /\ calc.tag = "done"
    /\ calc.before[1] = 0
    /\ calc.output = BucketBytes(chunks, buckets[1][1])
    /\ calc.output < BytesOf(Buckets)
    /\ buckets[1][0].arena # DUMMY_CHUNK
    /\ buckets[1][1].arena # DUMMY_CHUNK
    /\ buckets[1][0].arena < buckets[1][1].arena
    /\ BucketBytes(chunks, buckets[1][0]) # BucketBytes(chunks, buckets[1][1])
    /\ \A t \in 1 .. SnapThreads : pc[t] = "idle"

\* The buckets whose Mutex thread t holds.
LocksHeld(t) == {b \in Buckets : locks[1][b] = t}

\* No thread holds two locks, a thread outside a call holds none, and a
\* thread inside a call holds at most the lock of the bucket it is routed to,
\* the caller of allocated_memory that of the bucket it is at.
OneLockAtATime ==
    /\ \A t \in Threads \cup {Observer} : Cardinality(LocksHeld(t)) <= 1
    /\ \A t \in Threads :
          LocksHeld(t) = IF pc[t] \in {"locked", "probed"}
                         THEN {BucketOf(arg[t])} ELSE {}
    /\ LocksHeld(Observer) = IF calc.op = "sum" /\ calc.tag = "locked"
                             THEN {calc.input} ELSE {}

\* C27 (no deadlock): no thread holds more than one lock of a bucket at a
\* time, and under the scheduling of SpecLive every call of intern returns
\* (with a handle or by a panic that drops the guard) and every call of
\* allocated_memory gets its sum.
C27_DeadlockFreedom ==
    /\ []OneLockAtATime
    /\ \A t \in 1 .. SnapThreads : (pc[t] # "idle") ~> (pc[t] = "idle")
    /\ (calc.op = "sum") ~> (calc.op = "sum" /\ calc.tag = "done")

\* The caller of allocated_memory waits for the Mutex of a bucket that a
\* thread inside intern holds, after it has read a bucket before that one.
C27_Witness ==
    /\ calc.op = "sum"
    /\ calc.tag = "next"
    /\ calc.input > 0
    /\ calc.input < BUCKET_NUMBER
    /\ locks[1][calc.input] \in Threads
    /\ pc[locks[1][calc.input]] = "probed"

=============================================================================
